---- MODULE Spec2Model ----
(***************************************************************************)
(* FerriShare: resource-lifecycle and access-control core.                 *)
(*                                                                         *)
(* State machine of the rate limiter (ip_prefix.rs), the upload guard and  *)
(* upload handler (upload.rs), the download and delete endpoints           *)
(* (download.rs, delete.rs), the administrator sessions (admin.rs) and the *)
(* background cleanup task (auto_cleanup.rs).                              *)
(***************************************************************************)
EXTENDS Integers, FiniteSets, Sequences, TLC

(***************************************************************************)
(* Bounds of the model.                                                    *)
(***************************************************************************)
\* Largest small daily request limit explored (decay step 1).
MaxSmallCap == 2
\* The large daily request limit explored is DecaySteps * 96 (decay step = DecaySteps).
DecaySteps == 2
\* A counter is driven at most this far above the daily limit.
Overshoot == 3
\* Configured limits of the upload scenarios (config.toml values).
CfgMaximumFilesize == 2
CfgMaximumQuota == 2
CfgMaximumUploadsPerIp == 1
\* Number of admin keys / session ids the random generator hands out in one run.
MaxRandom == 2
\* A file's download counter is driven at most this far.
MaxDownloads == 1
\* Administrator sessions stored at one time.
MaxSessions == 1
\* Request slots served concurrently.
Tasks == {"t1", "t2"}

(***************************************************************************)
(* Program constants.                                                      *)
(***************************************************************************)
\* auto_cleanup.rs:30  daily_request_limit_per_ip / 96
PeriodsPerWindow == 96
\* upload.rs:110  field_data.len() > 8192
MaxFilenameLen == 8192
\* upload.rs:125,134  field_data.len() != 12
IvLen == 12
\* delete.rs:56, download.rs:332  v.len() == 32
KeyLen == 32
\* delete.rs:28, download.rs:39,237  hash.len() != 43
HashLen == 43

\* ip_prefix.rs:19-23  enum IpPrefix: the identities of the model's clients.
IpPrefix == {"ip4_a", "ip6_b"}

\* ip_prefix.rs:40-60  Display: the canonical fixed-width hex string.
to_string(eip) == IF eip = "ip4_a" THEN "v4_0a000001" ELSE "v6_20010db800000001"

(***************************************************************************)
(* State.                                                                  *)
(***************************************************************************)
VARIABLES
    conf,            \* AppConfiguration (config.rs): set once at start
    rate_limiter,    \* aps.rate_limiter: HashMap<IpPrefix, u64>, a function on its keys
    rl_last,         \* latest pass through ip_prefix_ratelimiter: admitted (next.run) or 429
    bucket,          \* history: per identity, progress through fill / deny / decay / refill
    uploading,       \* aps.uploading: HashSet<IpPrefix>
    uploaded_files,  \* table uploaded_files: efd_sha256sum -> row
    disk,            \* DATA_PATH/uploaded_files: file name -> "complete" | "partial"
    admin_sessions,  \* table admin_sessions: session_id_sha256sum -> expiry_ts
    now,             \* Utc::now(), in hours
    rng,             \* number of 32-byte random values drawn so far (thread_rng)
    served,          \* history: per hash, the UPDATEs of download_endpoint that succeeded
    cron,            \* cleanup_cronjob: position in its loop and the rows it selected
    req              \* per request slot: position in its handler and the handler's locals

rlVars == <<rate_limiter, rl_last, bucket>>
storeVars == <<uploaded_files, disk, admin_sessions>>
vars == <<conf, rate_limiter, rl_last, bucket, uploading, uploaded_files, disk,
          admin_sessions, now, rng, served, cron, req>>

Max(a, b) == IF a >= b THEN a ELSE b

\* auto_cleanup.rs:30  std::cmp::max(aps.conf.daily_request_limit_per_ip / 96, 1)
DecayStep == Max(conf.daily_request_limit_per_ip \div PeriodsPerWindow, 1)

\* HashMap lookup with the absent key read as "no counter".
HasCounter(eip) == eip \in DOMAIN rate_limiter

\* ip_prefix.rs:162-165  rl.entry(eip).and_modify(|v| *v += 1).or_insert(1)
EntryIncrement(eip) == IF HasCounter(eip) THEN rate_limiter[eip] + 1 ELSE 1

\* Mutant: the limit compared with "<" (the budget is one request short).
Admitted_Strict(counter) == counter < conf.daily_request_limit_per_ip

\* ip_prefix.rs:169  counter <= aps.conf.daily_request_limit_per_ip
Admitted(counter) == counter <= conf.daily_request_limit_per_ip

\* Mutant: the pass empties the bucket instead of leaking one step from it.
Leak_Empty(v) == 0

\* auto_cleanup.rs:29-31  v.checked_sub(max(limit / 96, 1)).unwrap_or_default()
Leak(v) == IF v >= DecayStep THEN v - DecayStep ELSE 0

(***************************************************************************)
(* Rate limiter: ip_prefix_ratelimiter (ip_prefix.rs) and the leak of      *)
(* cleanup_cronjob (auto_cleanup.rs).                                      *)
(***************************************************************************)
\* The map after rl.entry(eip) was written with counter.
WithCounter(eip, counter) ==
    [k \in DOMAIN rate_limiter \cup {eip} |-> IF k = eip THEN counter ELSE rate_limiter[k]]

\* History of one identity's bucket: "fill" from an empty bucket with no decay in
\* between, "denied" by the first rejection, "decayed" by exactly one decay pass,
\* "closed" by the next rejection; n counts the requests admitted in the phase.
BucketOnRequest(b, admitted) ==
    CASE b.phase = "fill" /\ admitted -> [b EXCEPT !.n = b.n + 1]
      [] b.phase = "fill" /\ ~admitted ->
            IF b.n = conf.daily_request_limit_per_ip
            THEN [b EXCEPT !.phase = "denied"] ELSE [b EXCEPT !.phase = "early"]
      [] b.phase = "denied" -> [phase |-> "void", n |-> 0]
      [] b.phase = "decayed" /\ admitted -> [b EXCEPT !.n = b.n + 1]
      [] b.phase = "decayed" /\ ~admitted -> [b EXCEPT !.phase = "closed"]
      [] OTHER -> b

BucketOnDecay(b) ==
    CASE b.phase = "fill" /\ b.n = 0 -> b
      [] b.phase = "denied" -> [phase |-> "decayed", n |-> 0]
      [] b.phase \in {"closed", "early"} -> b
      [] OTHER -> [phase |-> "void", n |-> 0]

\* ip_prefix.rs:153-177  one request through the middleware; the write lock is held
\* from the lookup to the end of the update (lines 160-167).
ip_prefix_ratelimiter(eip) ==
    LET counter == EntryIncrement(eip) IN
    /\ counter <= conf.daily_request_limit_per_ip + Overshoot
    /\ rate_limiter' = WithCounter(eip, counter)
    /\ rl_last' = [ip |-> eip, admitted |-> Admitted(counter)]
    /\ bucket' = [bucket EXCEPT ![eip] = BucketOnRequest(bucket[eip], Admitted(counter))]
    /\ UNCHANGED <<conf, served, cron, uploading, storeVars, now, rng, req>>

\* auto_cleanup.rs:22-40  leak from every bucket, then rl.retain(|_, v| *v > 0).
LeakAndRetain ==
    LET kept == {k \in DOMAIN rate_limiter : Leak(rate_limiter[k]) > 0} IN
    [k \in kept |-> Leak(rate_limiter[k])]

Decay ==
    /\ rate_limiter' = LeakAndRetain
    /\ bucket' = [i \in IpPrefix |-> BucketOnDecay(bucket[i])]

\* auto_cleanup.rs:16-40  one turn of the loop over an empty store: only the leak acts.
cleanup_decay ==
    /\ Decay
    /\ UNCHANGED <<conf, served, cron, rl_last, uploading, storeVars, now, rng, req>>

\* config.rs:249-271  any u64 is accepted as the daily request limit.
RateLimits == (0 .. MaxSmallCap) \cup {DecaySteps * PeriodsPerWindow}

\* A request slot with no request in it; locks are the write guards its task holds, xff
\* the X-Forwarded-For header of the request.
Idle ==
    [pc |-> "idle", kind |-> "", ip |-> "", hash |-> "", key |-> "", cookie |-> "",
     size |-> 0, hours |-> 0, downloads |-> 0, at |-> 0, status |-> 0, note |-> "",
     locks |-> {}, xff |-> [some |-> FALSE, v |-> << >>]]

\* cleanup_cronjob asleep (auto_cleanup.rs:20), holding no guard.
Asleep == [pc |-> "sleep", files |-> {}, file |-> "", sessions |-> {}, locks |-> {}]

\* AppState at startup: empty maps; the store as the previous run left it (empty here).
InitRateLimiter ==
    /\ rate_limiter = << >>
    /\ rl_last = [ip |-> "none", admitted |-> TRUE]
    /\ bucket = [i \in IpPrefix |-> [phase |-> "fill", n |-> 0]]

InitEmpty ==
    /\ uploading = {}
    /\ uploaded_files = << >>
    /\ disk = << >>
    /\ admin_sessions = << >>
    /\ now = 0
    /\ rng = 0
    /\ cron = Asleep
    /\ req = [t \in Tasks |-> Idle]

Configurations(limits) ==
    [daily_request_limit_per_ip : limits,
     maximum_filesize : {CfgMaximumFilesize},
     maximum_quota : {CfgMaximumQuota},
     maximum_uploads_per_ip : {CfgMaximumUploadsPerIp},
     proxy_depth : {1}]

InitRL ==
    /\ served = << >>
    /\ conf \in Configurations(RateLimits)
    /\ InitRateLimiter
    /\ InitEmpty

\* With the large limit a single identity sends the requests.
Clients ==
    IF conf.daily_request_limit_per_ip > MaxSmallCap THEN {"ip4_a"} ELSE IpPrefix

NextRL ==
    \/ \E eip \in Clients : ip_prefix_ratelimiter(eip)
    \/ cleanup_decay

SpecRL == InitRL /\ [][NextRL]_vars

(***************************************************************************)
(* Bytes, digests and encodings.                                           *)
(***************************************************************************)
\* The 32-byte values thread_rng() hands out, in the order drawn: never one twice.
RandomPool == <<"r1", "r2", "r3", "r4", "r5">>

\* upload.rs:176, admin.rs:175  thread_rng().gen::<[u8; 32]>()
Random32 == RandomPool[rng + 1]

\* Ciphertexts clients upload, and their lengths in bytes ("big" exceeds every limit).
Blobs == {"x", "y"}
BlobLen(blob) ==
    IF blob = "x" THEN 1
    ELSE IF blob = "y" THEN 2
    ELSE IF blob = "w" THEN conf.maximum_filesize
    ELSE conf.maximum_filesize + 1

\* sha2::Sha256::digest and base64 URL_SAFE_NO_PAD.encode, both injective.
Sha256(bytes) == "sha256(" \o bytes \o ")"
Encode(bytes) == IF bytes = "" THEN "" ELSE "b64(" \o bytes \o ")"

\* Byte strings a client may have encoded: random values, digests, short or empty input.
RandomValues == {RandomPool[i] : i \in 1 .. Len(RandomPool)}
ByteStrings ==
    {"", "short"} \cup RandomValues \cup {Sha256(b) : b \in RandomValues \cup Blobs \cup {""}}

ByteLen(bytes) == IF bytes = "" THEN 0 ELSE IF bytes = "short" THEN 5 ELSE KeyLen

\* URL_SAFE_NO_PAD.decode: the bytes, or an error for text that is no encoding.
Decode(text) ==
    IF \E b \in ByteStrings : Encode(b) = text
    THEN [ok |-> TRUE, bytes |-> CHOOSE b \in ByteStrings : Encode(b) = text]
    ELSE [ok |-> FALSE, bytes |-> ""]

\* String::len of a request parameter: an encoded 32-byte digest has 43 characters.
StrLen(text) ==
    IF Decode(text).ok /\ ByteLen(Decode(text).bytes) = KeyLen THEN HashLen ELSE Len(text)

\* upload.rs:173  URL_SAFE_NO_PAD.encode(Sha256::digest(&e_filedata))
EfdSha256sum(blob) == Encode(Sha256(blob))

(***************************************************************************)
(* Upload: upload_endpoint_wrapper and upload_endpoint (upload.rs).        *)
(***************************************************************************)
Field(name, len, data) == [name |-> name, len |-> len, data |-> data]

\* A well-formed upload form for a ciphertext and a duration.
Form(blob, duration) ==
    << Field("e_filename", 16, ""), Field("e_filedata", BlobLen(blob), blob),
       Field("iv_fd", IvLen, ""), Field("iv_fn", IvLen, ""),
       Field("duration", Len(duration), duration) >>

\* The multipart forms clients send.
UploadForms ==
    {Form(b, "hour") : b \in Blobs}
    \cup {Form("big", "hour"), Form("x", "month"),
          SubSeq(Form("x", "hour"), 1, 4),
          <<Field("iv_fd", IvLen - 1, "")>>,
          <<Field("e_filename", MaxFilenameLen + 1, "")>>,
          <<Field("comment", 1, "")>>}

NoFields ==
    [e_filename |-> FALSE, e_filedata |-> "", iv_fd |-> FALSE, iv_fn |-> FALSE,
     hour_duration |-> 0, err |-> ""]

\* upload.rs:146-151  match s { "hour" => Some(1), "day" => Some(24), "week" => Some(24 * 7) }
HourDuration(text) ==
    IF text = "hour" THEN 1 ELSE IF text = "day" THEN 24 ELSE IF text = "week" THEN 24 * 7 ELSE 0

\* upload.rs:108-156  one iteration of the field loop.
ReadField(acc, f) ==
    CASE f.name = "e_filename" ->
            IF f.len > MaxFilenameLen THEN [acc EXCEPT !.err = "encrypted filename is too large"]
            ELSE [acc EXCEPT !.e_filename = TRUE]
      [] f.name = "e_filedata" ->
            IF f.len > conf.maximum_filesize THEN [acc EXCEPT !.err = "encrypted file is too large"]
            ELSE [acc EXCEPT !.e_filedata = f.data]
      [] f.name = "iv_fd" ->
            IF f.len # IvLen THEN [acc EXCEPT !.err = "iv_fd is not exactly 12 bytes long"]
            ELSE [acc EXCEPT !.iv_fd = TRUE]
      [] f.name = "iv_fn" ->
            IF f.len # IvLen THEN [acc EXCEPT !.err = "iv_fn is not exactly 12 bytes long"]
            ELSE [acc EXCEPT !.iv_fn = TRUE]
      [] f.name = "duration" -> [acc EXCEPT !.hour_duration = HourDuration(f.data)]
      [] OTHER -> [acc EXCEPT !.err = "illegal form field during upload"]

\* upload.rs:104-157  while let Some(field) = multipart.next_field().await?
RECURSIVE ReadFields(_, _)
ReadFields(acc, form) ==
    IF form = << >> \/ acc.err # "" THEN acc
    ELSE ReadFields(ReadField(acc, Head(form)), Tail(form))

\* Mutant: a form without duration is let through.
FormError_DurationOptional(form) ==
    LET acc == ReadFields(NoFields, form) IN
    IF acc.err # "" THEN acc.err
    ELSE IF ~acc.e_filename THEN "no encrypted filename provided"
    ELSE IF acc.e_filedata = "" THEN "no encrypted filedata provided"
    ELSE IF ~acc.iv_fd THEN "no iv_fd provided"
    ELSE IF ~acc.iv_fn THEN "no iv_fn provided"
    ELSE ""

\* upload.rs:159-166  the ok_or_else chain after the loop.
FormError(form) ==
    LET acc == ReadFields(NoFields, form) IN
    IF acc.err # "" THEN acc.err
    ELSE IF ~acc.e_filename THEN "no encrypted filename provided"
    ELSE IF acc.e_filedata = "" THEN "no encrypted filedata provided"
    ELSE IF ~acc.iv_fd THEN "no iv_fd provided"
    ELSE IF ~acc.iv_fn THEN "no iv_fn provided"
    ELSE IF acc.hour_duration = 0 THEN "no duration provided"
    ELSE ""

\* upload.rs:74-78  SELECT COUNT(*) FROM uploaded_files WHERE upload_ip = ?
UploadsBy(eip) ==
    Cardinality({h \in DOMAIN uploaded_files : uploaded_files[h].upload_ip = to_string(eip)})

RECURSIVE SumFilesize(_)
SumFilesize(hs) ==
    IF hs = {} THEN 0
    ELSE LET h == CHOOSE h \in hs : TRUE IN uploaded_files[h].filesize + SumFilesize(hs \ {h})

\* upload.rs:86-88  SELECT SUM(filesize) FROM uploaded_files
TotalQuota == SumFilesize(DOMAIN uploaded_files)

\* upload.rs:81  uploads_by_eip as usize > aps.conf.maximum_uploads_per_ip
UploadLimitHit(eip) == UploadsBy(eip) > conf.maximum_uploads_per_ip

\* upload.rs:91  total_quota as usize > aps.conf.maximum_quota
QuotaHit == TotalQuota > conf.maximum_quota

\* The handler of slot t returns (or fails with) a status; its locals are dropped.
Return(t, status, message) ==
    req' = [req EXCEPT ![t] = [Idle EXCEPT !.pc = "ret", !.kind = req[t].kind,
                                           !.ip = req[t].ip, !.status = status]]

Goto(t, pc) == req' = [req EXCEPT ![t].pc = pc]

Free(t) == req[t].pc \in {"idle", "done"}

\* Mutant: the insert's result is ignored (every request is let through).
GuardInsert_Ignored(eip) == TRUE

\* upload.rs:43  HashSet::insert returns true iff the value was not yet in the set.
GuardInsert(eip) == eip \notin uploading

\* Mutant: the denied request removes the identity as well.
upload_endpoint_wrapper_DeniedRemoves(t, eip) ==
    /\ Free(t)
    /\ IF ~GuardInsert(eip)
       THEN /\ req' = [req EXCEPT ![t] = [Idle EXCEPT !.pc = "done", !.kind = "upload",
                          !.ip = eip, !.status = 429, !.note = "already uploading"]]
            /\ uploading' = uploading \ {eip}
       ELSE /\ uploading' = uploading \cup {eip}
            /\ req' = [req EXCEPT ![t] = [Idle EXCEPT !.pc = "count", !.kind = "upload",
                          !.ip = eip]]
    /\ UNCHANGED <<conf, served, cron, rlVars, storeVars, now, rng>>

\* upload.rs:37-49  the guard's entry: HashSet::insert under the write lock.
upload_endpoint_wrapper(t, eip) ==
    /\ Free(t)
    /\ IF ~GuardInsert(eip)
       THEN /\ req' = [req EXCEPT ![t] = [Idle EXCEPT !.pc = "done", !.kind = "upload",
                          !.ip = eip, !.status = 429, !.note = "already uploading"]]
            /\ UNCHANGED uploading
       ELSE /\ uploading' = uploading \cup {eip}
            /\ req' = [req EXCEPT ![t] = [Idle EXCEPT !.pc = "count", !.kind = "upload",
                          !.ip = eip]]
    /\ UNCHANGED <<conf, served, cron, rlVars, storeVars, now, rng>>

\* upload.rs:64-83  multipart rejection, then the per-identity count and its check.
upload_count(t) ==
    /\ req[t].pc = "count"
    /\ \E multipart_ok, db_ok \in BOOLEAN :
          IF ~multipart_ok THEN Return(t, 400, "failed to parse form data")
          ELSE IF ~db_ok THEN Return(t, 500, "database error")
          ELSE IF UploadLimitHit(req[t].ip)
               THEN Return(t, 429, "your computer has reached the file upload limit")
          ELSE Goto(t, "quota")
    /\ UNCHANGED <<conf, served, cron, rlVars, uploading, storeVars, now, rng>>

\* upload.rs:85-96  the global usage and its check.
upload_quota(t) ==
    /\ req[t].pc = "quota"
    /\ \E db_ok \in BOOLEAN :
          IF ~db_ok THEN Return(t, 500, "database error")
          ELSE IF QuotaHit
               THEN Return(t, 507, "server has reached maximum storage capacity")
          ELSE Goto(t, "fields")
    /\ UNCHANGED <<conf, served, cron, rlVars, uploading, storeVars, now, rng>>

\* Mutant: the file data is written to disk as it arrives, before the form is validated.
upload_form_WriteFirst(t, form, stream_ok) ==
    /\ req[t].pc = "fields"
    /\ LET acc == ReadFields(NoFields, form) IN
       /\ disk' = (EfdSha256sum(acc.e_filedata) :> "complete") @@ disk
       /\ IF ~stream_ok THEN Return(t, 500, "multipart error")
          ELSE IF FormError(form) # "" THEN Return(t, 400, FormError(form))
          ELSE req' = [req EXCEPT ![t].pc = "file",
                                  ![t].hash = EfdSha256sum(acc.e_filedata),
                                  ![t].size = BlobLen(acc.e_filedata),
                                  ![t].hours = acc.hour_duration,
                                  ![t].at = now]
    /\ UNCHANGED <<conf, served, cron, rlVars, uploading, uploaded_files, admin_sessions, now, rng>>

\* upload.rs:98-208  this form is read and validated; hash, key and timestamps are
\* computed. stream_ok: no error of the multipart stream.
upload_form(t, form, stream_ok) ==
    /\ req[t].pc = "fields"
    /\ LET acc == ReadFields(NoFields, form) IN
       IF ~stream_ok THEN Return(t, 500, "multipart error")
       ELSE IF FormError(form) # "" THEN Return(t, 400, FormError(form))
       ELSE req' = [req EXCEPT ![t].pc = "file",
                               ![t].hash = EfdSha256sum(acc.e_filedata),
                               ![t].size = BlobLen(acc.e_filedata),
                               ![t].hours = acc.hour_duration,
                               ![t].at = now]
    /\ UNCHANGED <<conf, served, cron, rlVars, uploading, storeVars, now, rng>>

\* upload.rs:98-208  the same for any of the forms clients send.
upload_fields(t) ==
    \E form \in UploadForms, stream_ok \in BOOLEAN : upload_form(t, form, stream_ok)

\* Mutant: a failure to create the file is not returned; the handler goes on to the row.
upload_file_IgnoreError(t) ==
    /\ req[t].pc = "file"
    /\ \/ disk' = (req[t].hash :> "complete") @@ disk
       \/ UNCHANGED disk
    /\ Goto(t, "row")
    /\ UNCHANGED <<conf, served, cron, rlVars, uploading, uploaded_files, admin_sessions, now, rng>>

\* upload.rs:210-218  File::create(..).await?.write_all(..).await?
upload_file(t) ==
    /\ req[t].pc = "file"
    /\ \E outcome \in {"written", "create failed", "write failed"} :
          CASE outcome = "written" ->
                  /\ disk' = (req[t].hash :> "complete") @@ disk
                  /\ Goto(t, "row")
            [] outcome = "create failed" ->
                  /\ UNCHANGED disk
                  /\ Return(t, 500, "failed to create file on disk")
            [] OTHER ->
                  /\ disk' = (req[t].hash :> "partial") @@ disk
                  /\ Return(t, 500, "failed to write encrypted filedata to disk")
    /\ UNCHANGED <<conf, served, cron, rlVars, uploading, uploaded_files, admin_sessions, now, rng>>

\* Mutant: the row keeps the admin key itself instead of its digest.
NewRow_KeyStored(t, key) ==
    [admin_key_sha256sum |-> Encode(key), filesize |-> req[t].size,
     upload_ip |-> to_string(req[t].ip), upload_ts |-> req[t].at,
     expiry_ts |-> req[t].at + req[t].hours, downloads |-> 0]

\* The row upload_endpoint binds (upload.rs:226-235), its timestamps those of the clock
\* read at upload.rs:201 ("at"); downloads defaults to 0.
NewRow(t, key) ==
    [admin_key_sha256sum |-> Encode(Sha256(key)), filesize |-> req[t].size,
     upload_ip |-> to_string(req[t].ip), upload_ts |-> req[t].at,
     expiry_ts |-> req[t].at + req[t].hours, downloads |-> 0]

\* Mutant: the INSERT replaces the row of a stored hash.
InsertRefused_Never(hash) == FALSE

\* uploaded_files is keyed by efd_sha256sum: a second row for a stored hash is refused.
InsertRefused(hash) == hash \in DOMAIN uploaded_files

\* Mutant: a failed INSERT is rolled back by removing the file just written.
upload_row_Rollback(t) ==
    /\ req[t].pc = "row"
    /\ rng < MaxRandom
    /\ rng' = rng + 1
    /\ \/ /\ Return(t, 500, "failed to insert row into database")
          /\ disk' = [f \in DOMAIN disk \ {req[t].hash} |-> disk[f]]
          /\ UNCHANGED uploaded_files
       \/ /\ ~InsertRefused(req[t].hash)
          /\ uploaded_files' = (req[t].hash :> NewRow(t, Random32)) @@ uploaded_files
          /\ req' = [req EXCEPT ![t] = [Idle EXCEPT !.pc = "ret", !.kind = "upload",
                                 !.ip = req[t].ip, !.hash = req[t].hash,
                                 !.key = Encode(Random32), !.status = 201]]
          /\ UNCHANGED disk
    /\ UNCHANGED <<conf, served, cron, rlVars, uploading, admin_sessions, now>>

\* upload.rs:225-253  the INSERT and the 201 response with hash and admin key ("key").
upload_row(t) ==
    /\ req[t].pc = "row"
    /\ rng < MaxRandom
    /\ rng' = rng + 1
    /\ \E db_ok \in BOOLEAN :
          IF ~db_ok \/ InsertRefused(req[t].hash)
          THEN /\ Return(t, 500, "failed to insert row into database")
               /\ UNCHANGED uploaded_files
          ELSE /\ uploaded_files' = (req[t].hash :> NewRow(t, Random32)) @@ uploaded_files
               /\ req' = [req EXCEPT ![t] = [Idle EXCEPT !.pc = "ret", !.kind = "upload",
                                      !.ip = req[t].ip, !.hash = req[t].hash,
                                      !.key = Encode(Random32), !.status = 201]]
    /\ UNCHANGED <<conf, served, cron, rlVars, uploading, disk, admin_sessions, now>>

\* Mutant: the entry is removed on the success path only.
upload_endpoint_wrapper_leave_OnSuccess(t) ==
    /\ req[t].kind = "upload"
    /\ req[t].pc = "ret"
    /\ uploading' = IF req[t].status = 201 THEN uploading \ {req[t].ip} ELSE uploading
    /\ Goto(t, "done")
    /\ UNCHANGED <<conf, served, cron, rlVars, storeVars, now, rng>>

\* upload.rs:50-56  after next.run(request).await: HashSet::remove, then the response.
upload_endpoint_wrapper_leave(t) ==
    /\ req[t].kind = "upload"
    /\ req[t].pc = "ret"
    /\ uploading' = uploading \ {req[t].ip}
    /\ Goto(t, "done")
    /\ UNCHANGED <<conf, served, cron, rlVars, storeVars, now, rng>>

\* The positions of upload_endpoint_wrapper between its insert and its remove: the
\* await of next.run (upload.rs:50) and of the second write lock (upload.rs:52).
Guarded(t) ==
    /\ req[t].kind = "upload"
    /\ req[t].pc \in {"count", "quota", "fields", "file", "row", "ret"}

\* The request future of slot t is dropped at an await point (the client went away or
\* the deadline passed): nothing after the await runs.
Cancel(t) ==
    /\ Guarded(t)
    /\ req' = [req EXCEPT ![t] = [Idle EXCEPT !.pc = "done", !.kind = "upload",
                                          !.ip = req[t].ip, !.note = "cancelled"]]
    /\ UNCHANGED <<conf, served, cron, rlVars, uploading, storeVars, now, rng>>

InitUpload ==
    /\ served = << >>
    /\ conf \in Configurations({MaxSmallCap})
    /\ InitRateLimiter
    /\ InitEmpty

Upload(t) ==
    \/ \E eip \in IpPrefix : upload_endpoint_wrapper(t, eip)
    \/ upload_count(t)
    \/ upload_quota(t)
    \/ upload_fields(t)
    \/ upload_file(t)
    \/ upload_row(t)
    \/ upload_endpoint_wrapper_leave(t)

NextUpload == \E t \in Tasks : Upload(t)

\* Uploads that run to completion.
SpecUpload == InitUpload /\ [][NextUpload]_vars

NextCancel ==
    \/ \E t \in Tasks : Upload(t)
    \/ \E t \in Tasks : Cancel(t)

NextSequential == Upload("t1")

\* One request at a time: a single slot serves the uploads.
SpecSequential == InitUpload /\ [][NextSequential]_vars

\* Uploads whose request may be dropped before its handler completes.
SpecCancel == InitUpload /\ [][NextCancel]_vars

(***************************************************************************)
(* Time, expiry and the request parameters of the read and delete side.    *)
(***************************************************************************)
\* The hours at which the clock is observed: an hour's lifetime begun at 0 ends at 1 and
\* has passed at 2; a day's lifetime begun at 0 has passed at 25, one begun at 1 ends there.
Instants == {0, 1, 2, 25}

\* has_expired(&expiry_ts): the stored timestamp lies before Utc::now().
has_expired(expiry_ts) == expiry_ts < now

\* Option<String> of a query parameter, JSON member or cookie.
None == [some |-> FALSE, v |-> ""]
Some(v) == [some |-> TRUE, v |-> v]

\* The row of a file uploaded at hour 0 (see NewRow).
Stored(blob, eip, hours, key) ==
    [admin_key_sha256sum |-> Encode(Sha256(key)), filesize |-> BlobLen(blob),
     upload_ip |-> to_string(eip), upload_ts |-> 0, expiry_ts |-> hours, downloads |-> 0]

\* Hash parameters: the stored files, a well-formed hash of no file, a malformed one.
HashInputs == {Some(EfdSha256sum(b)) : b \in Blobs \cup {""}} \cup {Some("short"), None}

\* The "hash" member of a delete request (a String).
DeleteHashes == {h.v : h \in HashInputs \ {None}}

\* Admin-key parameters: none, the key of file x (not of y), a key of wrong length, text
\* that is not base64url.
AdminInputs == {None, Some(Encode("r5")), Some(Encode("short")), Some("garbage")}

\* delete.rs:25, download.rs:209  the "admin" parameter as the request carried it ("" for
\* none).
AdminParam(admin) == IF admin.some THEN admin.v ELSE ""

\* Session cookies: none, the id of the session of hour 0 (see InitStore), the first id
\* handed out by a login of the run.
CookieInputs == {None, Some(Encode("r3")), Some(Encode("r1"))}

\* delete.rs:51-58, download.rs:327-334  decode, keep only 32 bytes, digest, encode.
AdminKeyDigest(admin_key) ==
    LET d == Decode(admin_key) IN
    Encode(Sha256(IF d.ok /\ ByteLen(d.bytes) = KeyLen THEN d.bytes ELSE ""))

\* delete.rs:71-75, admin.rs:31-35, 220-224  digest of the decoded "id" cookie, if any.
SessionDigest(cookie) ==
    LET d == Decode(IF cookie.some THEN cookie.v ELSE "") IN
    Encode(Sha256(IF d.ok THEN d.bytes ELSE ""))

\* The handler of slot t answers; hash and note record what it answered to (the text of
\* an error is not kept).
Done(t, kind, hash, status, note) ==
    req' = [req EXCEPT ![t] = [Idle EXCEPT !.pc = "done", !.kind = kind, !.hash = hash,
                                  !.status = status,
                                  !.note = IF status = 200 \/ status = 303 THEN note ELSE ""]]

\* Time passes.
Tick ==
    /\ \E t \in Instants : t > now /\ now' = t
    /\ UNCHANGED <<conf, served, cron, rlVars, uploading, storeVars, rng, req>>

(***************************************************************************)
(* download_endpoint and download_page (download.rs).                      *)
(***************************************************************************)
\* Mutant: only a missing row counts as not found.
RowAbsent(hash) == hash \notin DOMAIN uploaded_files

\* download.rs:64-66, 272-274  row.as_ref().map_or(Ok(true), |v| has_expired(&v.expiry_ts))
RowAbsentOrExpired(hash) ==
    IF hash \in DOMAIN uploaded_files THEN has_expired(uploaded_files[hash].expiry_ts)
    ELSE TRUE

\* download.rs:20-72  parameter checks, the row query and the expiry check; counters
\* below limit are followed.
download_query(t, hash, limit) ==
    /\ Free(t)
    /\ IF ~hash.some THEN Done(t, "download", "", 400, "provide only the hash")
       ELSE IF StrLen(hash.v) # HashLen
            THEN Done(t, "download", hash.v, 400, "invalid hash length")
       ELSE \/ Done(t, "download", hash.v, 500, "database error")
            \/ IF RowAbsentOrExpired(hash.v)
               THEN Done(t, "download", hash.v, 404, "file not found or expired")
               ELSE /\ uploaded_files[hash.v].downloads < limit
                    /\ req' = [req EXCEPT ![t] = [Idle EXCEPT !.pc = "open",
                                  !.kind = "download", !.hash = hash.v,
                                  !.downloads = uploaded_files[hash.v].downloads]]
    /\ UNCHANGED <<conf, served, cron, rlVars, uploading, storeVars, now, rng>>

\* download.rs:20-72
download_endpoint(t, hash) == download_query(t, hash, MaxDownloads)

\* download.rs:74-86  tokio::fs::File::open and the streaming body.
download_open(t) ==
    /\ req[t].kind = "download"
    /\ req[t].pc = "open"
    /\ IF req[t].hash \in DOMAIN disk
       THEN Goto(t, "update")
       ELSE Done(t, "download", req[t].hash, 500, "file in database but not on disk")
    /\ UNCHANGED <<conf, served, cron, rlVars, uploading, storeVars, now, rng>>

\* Mutant: the UPDATE adds the bound value to the stored counter.
SetDownloads_Add(hash, count) ==
    IF hash \in DOMAIN uploaded_files
    THEN [uploaded_files EXCEPT ![hash].downloads = @ + count]
    ELSE uploaded_files

\* download.rs:88-93  UPDATE uploaded_files SET downloads = ? WHERE efd_sha256sum = ?
SetDownloads(hash, count) ==
    IF hash \in DOMAIN uploaded_files
    THEN [uploaded_files EXCEPT ![hash].downloads = count]
    ELSE uploaded_files

\* The UPDATEs of download_endpoint executed for hash so far, where they are tallied.
Served(hash) == IF hash \in DOMAIN served THEN served[hash] ELSE 0

\* download.rs:88-96  the counter is written from the value read earlier; then 200.
\* tally: the UPDATE is added to the history.
download_write(t, tally) ==
    /\ req[t].kind = "download"
    /\ req[t].pc = "update"
    /\ \E db_ok \in BOOLEAN :
          IF db_ok
          THEN /\ uploaded_files' = SetDownloads(req[t].hash, req[t].downloads + 1)
               /\ served' = IF tally THEN (req[t].hash :> Served(req[t].hash) + 1) @@ served
                             ELSE served
               /\ Done(t, "download", req[t].hash, 200, "body")
          ELSE /\ UNCHANGED <<uploaded_files, served>>
               /\ Done(t, "download", req[t].hash, 500, "database error")
    /\ UNCHANGED <<conf, cron, rlVars, uploading, disk, admin_sessions, now, rng>>

\* download.rs:88-96  the same, the history of UPDATEs not being kept.
download_update(t) == download_write(t, FALSE)

\* download.rs:319-364  response_type: "admin" iff the admin key's digest matches the row.
ResponseType(hash, admin) ==
    IF admin.some /\ AdminKeyDigest(admin.v) = uploaded_files[hash].admin_key_sha256sum
    THEN "admin" ELSE "file"

\* download.rs:204-375  the download page: parameter checks, row query, expiry check.
download_page(t, hash, admin) ==
    /\ Free(t)
    /\ IF ~hash.some THEN Done(t, "page", "", 400, "error")
       ELSE IF StrLen(hash.v) # HashLen THEN Done(t, "page", hash.v, 400, "error")
       ELSE \/ Done(t, "page", hash.v, 500, "database error")
            \/ IF RowAbsentOrExpired(hash.v) THEN Done(t, "page", hash.v, 404, "error")
               ELSE req' = [req EXCEPT ![t] = [Idle EXCEPT !.pc = "done", !.kind = "page",
                               !.hash = hash.v, !.key = AdminParam(admin), !.status = 200,
                               !.note = ResponseType(hash.v, admin)]]
    /\ UNCHANGED <<conf, served, cron, rlVars, uploading, storeVars, now, rng>>

(***************************************************************************)
(* delete_endpoint and cleanup_file (delete.rs).                           *)
(***************************************************************************)
\* delete.rs:104-107  DELETE FROM uploaded_files WHERE efd_sha256sum = ?
RowDeleted(hash) == [h \in DOMAIN uploaded_files \ {hash} |-> uploaded_files[h]]

\* delete.rs:110  tokio::fs::remove_file
FileRemoved(hash) == [f \in DOMAIN disk \ {hash} |-> disk[f]]

\* Mutant: any admin key that is present matches.
KeyAuthorizes_Any(hash, admin) == admin.some

\* delete.rs:51-63  the request's admin key matches the row's digest.
KeyAuthorizes(hash, admin) ==
    admin.some /\ AdminKeyDigest(admin.v) = uploaded_files[hash].admin_key_sha256sum

\* Mutant: the session query always returns a row.
SessionAuthorizes_Any(digest) == TRUE

\* delete.rs:77-86  SELECT 1 FROM admin_sessions WHERE session_id_sha256sum = ?
SessionAuthorizes(digest) == digest \in DOMAIN admin_sessions

\* Mutant: the session is looked up before the row, and wins.
delete_endpoint_AuthFirst(t, hash, admin, cookie) ==
    /\ Free(t)
    /\ IF StrLen(hash) # HashLen THEN Done(t, "delete", hash, 400, "invalid hash length")
       ELSE IF SessionAuthorizes(SessionDigest(cookie))
       THEN req' = [req EXCEPT ![t] = [Idle EXCEPT !.pc = "cleanup", !.kind = "delete",
                       !.hash = hash, !.note = "session"]]
       ELSE Done(t, "delete", hash, IF hash \in DOMAIN uploaded_files THEN 401 ELSE 404, "")
    /\ UNCHANGED <<conf, served, cron, rlVars, uploading, storeVars, now, rng>>

\* delete.rs:18-75  length check, row query, 404 on no row, admin-key comparison ("at" is
\* the hour the request arrived, "key" the admin key it carried).
delete_endpoint(t, hash, admin, cookie) ==
    /\ Free(t)
    /\ IF StrLen(hash) # HashLen THEN Done(t, "delete", hash, 400, "invalid hash length")
       ELSE \/ Done(t, "delete", hash, 500, "database error")
            \/ IF hash \notin DOMAIN uploaded_files
               THEN req' = [req EXCEPT ![t] = [Idle EXCEPT !.pc = "done", !.kind = "delete",
                               !.hash = hash, !.cookie = SessionDigest(cookie),
                               !.status = 404]]
               ELSE IF KeyAuthorizes(hash, admin)
               THEN req' = [req EXCEPT ![t] = [Idle EXCEPT !.pc = "cleanup", !.kind = "delete",
                               !.hash = hash, !.key = AdminParam(admin),
                               !.note = "admin key"]]
               ELSE req' = [req EXCEPT ![t] = [Idle EXCEPT !.pc = "session", !.kind = "delete",
                               !.hash = hash, !.key = AdminParam(admin),
                               !.cookie = SessionDigest(cookie), !.at = now]]
    /\ UNCHANGED <<conf, served, cron, rlVars, uploading, storeVars, now, rng>>

\* delete.rs:77-98  the session query; authorized iff a row came back, else 401.
delete_endpoint_session(t) ==
    /\ req[t].kind = "delete"
    /\ req[t].pc = "session"
    /\ \E db_ok \in BOOLEAN :
          IF ~db_ok THEN Done(t, "delete", req[t].hash, 500, "database error")
          ELSE IF SessionAuthorizes(req[t].cookie)
               THEN req' = [req EXCEPT ![t].pc = "cleanup", ![t].note = "session"]
          ELSE req' = [req EXCEPT ![t] = [Idle EXCEPT !.pc = "done", !.kind = "delete",
                                     !.hash = req[t].hash, !.key = req[t].key,
                                     !.status = 401]]
    /\ UNCHANGED <<conf, served, cron, rlVars, uploading, storeVars, now, rng>>

\* delete.rs:90-93, 102-107  authorized: cleanup_file deletes the row first.
cleanup_file_row(t) ==
    /\ req[t].kind = "delete"
    /\ req[t].pc = "cleanup"
    /\ \E db_ok \in BOOLEAN :
          IF db_ok
          THEN /\ uploaded_files' = RowDeleted(req[t].hash)
               /\ Goto(t, "unlink")
          ELSE /\ UNCHANGED uploaded_files
               /\ Done(t, "delete", req[t].hash, 500, "database error")
    /\ UNCHANGED <<conf, served, cron, rlVars, uploading, disk, admin_sessions, now, rng>>

\* delete.rs:109-114, 93-95  then the file is removed from disk; 200, or 500 if that fails.
cleanup_file_unlink(t) ==
    /\ req[t].kind = "delete"
    /\ req[t].pc = "unlink"
    /\ IF req[t].hash \in DOMAIN disk
       THEN /\ disk' = FileRemoved(req[t].hash)
            /\ Done(t, "delete", req[t].hash, 200, req[t].note)
       ELSE /\ UNCHANGED disk
            /\ Done(t, "delete", req[t].hash, 500, "remove_file failed")
    /\ UNCHANGED <<conf, served, cron, rlVars, uploading, uploaded_files, admin_sessions, now, rng>>

(***************************************************************************)
(* Administrator sessions (admin.rs).                                      *)
(***************************************************************************)
\* admin.rs:37-45  the session exists and has not yet expired.
SessionLive(digest) ==
    IF digest \in DOMAIN admin_sessions THEN ~has_expired(admin_sessions[digest]) ELSE FALSE

\* admin.rs:25-147  the overview for a live session, the login form otherwise.
admin_page(t, cookie) ==
    /\ Free(t)
    /\ \E db_ok \in BOOLEAN :
          IF ~db_ok THEN Done(t, "admin", "", 500, "database error")
          ELSE IF SessionLive(SessionDigest(cookie)) THEN Done(t, "admin", "", 200, "overview")
          ELSE Done(t, "admin", "", 200, "login")
    /\ UNCHANGED <<conf, served, cron, rlVars, uploading, storeVars, now, rng>>

\* admin.rs:196  admin_login.long_login.map_or(1, |_| 30), in hours
SessionHours(long_login) == 24 * (IF long_login THEN 30 ELSE 1)

\* admin.rs:157-212  password check, a fresh session id, its digest and expiry stored.
admin_login(t, password_ok, long_login) ==
    /\ Free(t)
    /\ IF ~password_ok
       THEN /\ Done(t, "login", "", 303, "login_failed")
            /\ UNCHANGED <<admin_sessions, rng>>
       ELSE /\ rng < MaxRandom
            /\ Cardinality(DOMAIN admin_sessions) < MaxSessions
            /\ rng' = rng + 1
            /\ \E db_ok \in BOOLEAN :
                  IF db_ok
                  THEN /\ admin_sessions' = (Encode(Sha256(Random32)) :>
                                                (now + SessionHours(long_login)))
                                            @@ admin_sessions
                       /\ Done(t, "login", "", 303, "session")
                  ELSE /\ UNCHANGED admin_sessions
                       /\ Done(t, "login", "", 500, "database error")
    /\ UNCHANGED <<conf, served, cron, rlVars, uploading, uploaded_files, disk, now>>

\* Mutant: the logout removes the cookie only and keeps the row.
admin_logout_CookieOnly(t, cookie) ==
    /\ Free(t)
    /\ Done(t, "logout", "", 303, "")
    /\ UNCHANGED <<conf, served, cron, rlVars, uploading, storeVars, now, rng>>

\* admin.rs:215-239  DELETE FROM admin_sessions WHERE session_id_sha256sum = ?
admin_logout(t, cookie) ==
    /\ Free(t)
    /\ \E db_ok \in BOOLEAN :
          IF db_ok
          THEN /\ admin_sessions' = [s \in DOMAIN admin_sessions \ {SessionDigest(cookie)}
                                        |-> admin_sessions[s]]
               /\ Done(t, "logout", "", 303, "")
          ELSE /\ UNCHANGED admin_sessions
               /\ Done(t, "logout", "", 500, "database error")
    /\ UNCHANGED <<conf, served, cron, rlVars, uploading, uploaded_files, disk, now, rng>>

(***************************************************************************)
(* cleanup_cronjob: the sweep of expired files and sessions                *)
(* (auto_cleanup.rs).                                                      *)
(***************************************************************************)
\* auto_cleanup.rs:64-80  keep the rows whose timestamp has expired.
\* Mutant: the filter keeps no file.
ExpiredFiles_None == {}

\* Mutant: the pass also lists the files on disk that have no row.
ExpiredFiles_WithOrphans ==
    {h \in DOMAIN uploaded_files : has_expired(uploaded_files[h].expiry_ts)}
    \cup (DOMAIN disk \ DOMAIN uploaded_files)

\* auto_cleanup.rs:63-80  the rows whose expiry has passed.
ExpiredFiles == {h \in DOMAIN uploaded_files : has_expired(uploaded_files[h].expiry_ts)}

\* Mutant: the filter keeps every session.
ExpiredSessions_All == DOMAIN admin_sessions

\* auto_cleanup.rs:126-142
ExpiredSessions == {s \in DOMAIN admin_sessions : has_expired(admin_sessions[s])}

\* auto_cleanup.rs:16-80  the sleep ends: the leak of the rate limiter, then SELECT all
\* files and filter; on a database error: continue (asleep again).
cleanup_select_files ==
    /\ cron.pc = "sleep"
    /\ Decay
    /\ \E db_ok \in BOOLEAN :
          IF db_ok THEN cron' = [Asleep EXCEPT !.pc = "file", !.files = ExpiredFiles]
          ELSE cron' = Asleep
    /\ UNCHANGED <<conf, served, rl_last, uploading, storeVars, now, rng, req>>

\* Mutant: an error of the DELETE ends the pass.
cleanup_sweep_row_Abort ==
    /\ cron.pc = "file"
    /\ \E h \in cron.files, db_ok \in BOOLEAN :
          IF db_ok
          THEN /\ uploaded_files' = RowDeleted(h)
               /\ cron' = [cron EXCEPT !.pc = "unlink", !.file = h, !.files = @ \ {h}]
          ELSE /\ UNCHANGED uploaded_files
               /\ cron' = Asleep
    /\ UNCHANGED <<conf, served, rlVars, uploading, disk, admin_sessions, now, rng, req>>

\* auto_cleanup.rs:86-87, delete.rs:102-107  next file of the list: its row is deleted;
\* on an error the file is logged and skipped.
cleanup_sweep_row ==
    /\ cron.pc = "file"
    /\ \E h \in cron.files, db_ok \in BOOLEAN :
          IF db_ok
          THEN /\ uploaded_files' = RowDeleted(h)
               /\ cron' = [cron EXCEPT !.pc = "unlink", !.file = h, !.files = @ \ {h}]
          ELSE /\ UNCHANGED uploaded_files
               /\ cron' = [cron EXCEPT !.files = @ \ {h}]
    /\ UNCHANGED <<conf, served, rlVars, uploading, disk, admin_sessions, now, rng, req>>

\* delete.rs:109-114, auto_cleanup.rs:88-101  its file is removed (an error is logged).
cleanup_sweep_unlink ==
    /\ cron.pc = "unlink"
    /\ disk' = FileRemoved(cron.file)
    /\ cron' = [cron EXCEPT !.pc = "file", !.file = ""]
    /\ UNCHANGED <<conf, served, rlVars, uploading, uploaded_files, admin_sessions, now, rng, req>>

\* auto_cleanup.rs:104-142  the list is done: SELECT all sessions and filter.
cleanup_select_sessions ==
    /\ cron.pc = "file"
    /\ cron.files = {}
    /\ \E db_ok \in BOOLEAN :
          IF db_ok THEN cron' = [Asleep EXCEPT !.pc = "session", !.sessions = ExpiredSessions]
          ELSE cron' = Asleep
    /\ UNCHANGED <<conf, served, rlVars, uploading, storeVars, now, rng, req>>

\* auto_cleanup.rs:148-162  each expired session is deleted (an error is logged).
cleanup_sweep_session ==
    /\ cron.pc = "session"
    /\ \E s \in cron.sessions, db_ok \in BOOLEAN :
          /\ admin_sessions' = IF db_ok
                               THEN [k \in DOMAIN admin_sessions \ {s} |-> admin_sessions[k]]
                               ELSE admin_sessions
          /\ cron' = [cron EXCEPT !.sessions = @ \ {s}]
    /\ UNCHANGED <<conf, served, rlVars, uploading, uploaded_files, disk, now, rng, req>>

\* auto_cleanup.rs:16-20  end of the loop body: back to sleep.
cleanup_sleep ==
    /\ cron.pc = "session"
    /\ cron.sessions = {}
    /\ cron' = Asleep
    /\ UNCHANGED <<conf, served, rlVars, uploading, storeVars, now, rng, req>>

cleanup_cronjob ==
    \/ cleanup_select_files
    \/ cleanup_sweep_row
    \/ cleanup_sweep_unlink
    \/ cleanup_select_sessions
    \/ cleanup_sweep_session
    \/ cleanup_sleep

(***************************************************************************)
(* The store with two files in it, one request slot, the sweep, the clock. *)
(***************************************************************************)
\* Two uploads of hour 0: x for an hour by ip4_a, y for a week by ip6_b.
InitFiles ==
    /\ served = << >>
    /\ conf \in Configurations({MaxSmallCap})
    /\ InitRateLimiter
    /\ uploading = {}
    /\ uploaded_files = (EfdSha256sum("x") :> Stored("x", "ip4_a", HourDuration("hour"), "r5"))
                        @@ (EfdSha256sum("y") :> Stored("y", "ip6_b", HourDuration("week"), "r4"))
    /\ disk = [h \in DOMAIN uploaded_files |-> "complete"]
    /\ now = 0
    /\ rng = 0
    /\ cron = Asleep
    /\ req = [t \in Tasks |-> Idle]

\* The administrator logged in at hour 0 for a day (see admin_login).
InitStore ==
    /\ InitFiles
    /\ admin_sessions = (Encode(Sha256("r3")) :> SessionHours(FALSE))

\* Nobody is logged in.
InitSession ==
    /\ InitFiles
    /\ admin_sessions = << >>

Store(t) ==
    \/ \E hash \in HashInputs : download_endpoint(t, hash)
    \/ download_open(t)
    \/ download_update(t)
    \/ \E hash \in HashInputs, admin \in AdminInputs : download_page(t, hash, admin)
    \/ \E hash \in DeleteHashes, admin \in AdminInputs, cookie \in CookieInputs :
          delete_endpoint(t, hash, admin, cookie)
    \/ delete_endpoint_session(t)
    \/ cleanup_file_row(t)
    \/ cleanup_file_unlink(t)

Admin(t) ==
    \/ \E cookie \in CookieInputs : admin_page(t, cookie)
    \/ \E password_ok, long_login \in BOOLEAN : admin_login(t, password_ok, long_login)
    \/ \E cookie \in CookieInputs : admin_logout(t, cookie)
    \/ \E hash \in DeleteHashes, cookie \in CookieInputs :
          delete_endpoint(t, hash, None, cookie)
    \/ delete_endpoint_session(t)
    \/ cleanup_file_row(t)
    \/ cleanup_file_unlink(t)

NextStore ==
    \/ Store("t1")
    \/ cleanup_cronjob
    \/ Tick

\* Downloads and deletions of stored files while time passes and the sweep runs.
SpecStore == InitStore /\ [][NextStore]_vars

NextSession ==
    \/ Admin("t1")
    \/ cleanup_cronjob
    \/ Tick

\* Logins, logouts and deletions by session while time passes and the sweep runs.
SpecSession == InitSession /\ [][NextSession]_vars

(***************************************************************************)
(* Claims on the rate limiter (checked under SpecRL).                      *)
(***************************************************************************)
CounterOrZero(eip) == IF eip \in DOMAIN rate_limiter THEN rate_limiter[eip] ELSE 0

C1_Post(eip) ==
    /\ eip \in DOMAIN rate_limiter'
    /\ rate_limiter'[eip] = CounterOrZero(eip) + 1
    /\ \A k \in IpPrefix \ {eip} :
          /\ (k \in DOMAIN rate_limiter') = (k \in DOMAIN rate_limiter)
          /\ k \in DOMAIN rate_limiter => rate_limiter'[k] = rate_limiter[k]
    /\ rl_last'.ip = eip
    /\ rl_last'.admitted <=>
          (rate_limiter'[eip] <= conf.daily_request_limit_per_ip)

\* C1: every request through the rate limiter creates the identity's counter if it is
\* absent and increments it by exactly 1 (other counters untouched), and the request is
\* admitted iff the post-increment counter is <= daily_request_limit_per_ip; the
\* increment of a denied request is kept.
C1_Admission ==
    [][\A eip \in IpPrefix : ip_prefix_ratelimiter(eip) => C1_Post(eip)]_vars

\* A request was denied and the counter kept counting past the first rejection.
C1_Witness ==
    /\ ~rl_last.admitted
    /\ rl_last.ip \in DOMAIN rate_limiter
    /\ rate_limiter[rl_last.ip] > conf.daily_request_limit_per_ip + 1

\* C2 (as amended): from an empty bucket, exactly C requests are admitted and request
\* C+1 is denied (the counter is then C+1); after exactly one decay pass with no request
\* in between, exactly D - 1 further requests are admitted before the next denial, where
\* D = max(1, C / 96).
C2_RefillAfterDecay ==
    \A i \in IpPrefix :
        /\ bucket[i].phase # "early"
        /\ bucket[i].phase = "fill" =>
              /\ bucket[i].n <= conf.daily_request_limit_per_ip
              /\ bucket[i].n = CounterOrZero(i)
        /\ bucket[i].phase = "denied" =>
              /\ bucket[i].n = conf.daily_request_limit_per_ip
              /\ CounterOrZero(i) = conf.daily_request_limit_per_ip + 1
        /\ bucket[i].phase = "closed" =>
              bucket[i].n = Max(1, conf.daily_request_limit_per_ip \div PeriodsPerWindow) - 1

\* The scenario ran to its end with a decay step larger than one.
C2_Witness ==
    \E i \in IpPrefix :
        /\ bucket[i].phase = "closed"
        /\ conf.daily_request_limit_per_ip \div PeriodsPerWindow > 1
        /\ bucket[i].n >= 1

\* C2 as stated: after the decay pass exactly (C + 1 - D) further requests are admitted
\* before the next denial.
C2_AsStated ==
    \A i \in IpPrefix :
        bucket[i].phase = "closed" =>
            bucket[i].n = conf.daily_request_limit_per_ip + 1
                            - Max(1, conf.daily_request_limit_per_ip \div PeriodsPerWindow)

\* C3 as stated: every counter stays below a ceiling fixed by the limit alone (limit + 1
\* is the value the first rejected request leaves): rejected requests do not make it
\* grow further.
C3_CounterBounded ==
    \A i \in DOMAIN rate_limiter :
        rate_limiter[i] <= conf.daily_request_limit_per_ip + 1

(***************************************************************************)
(* Claims on the upload guard (SpecUpload, SpecCancel).                    *)
(***************************************************************************)
\* Slot t is inside the guarded handler (upload_endpoint is running).
InHandler(t) ==
    /\ req[t].kind = "upload"
    /\ req[t].pc \in {"count", "quota", "fields", "file", "row"}

GuardedBy(eip) == {t \in Tasks : Guarded(t) /\ req[t].ip = eip}

C4_Exclusive ==
    \A eip \in IpPrefix :
        /\ Cardinality(GuardedBy(eip)) <= 1
        /\ eip \in uploading <=> GuardedBy(eip) # {}

C4_Entry(t, eip) ==
    IF GuardedBy(eip) = {}
    THEN req'[t].pc = "count" /\ req'[t].ip = eip /\ eip \in uploading'
    ELSE /\ req'[t].pc = "done" /\ req'[t].status = 429
         /\ uploading' = uploading

\* C4: for any interleaving of upload requests, at most one request per identity is
\* between the guard's insert and its remove; a request arriving meanwhile is denied with
\* 429, and once the first has left the guard (no request of the identity is guarded) a
\* request from that identity is admitted.
C4_SingleFlight ==
    /\ []C4_Exclusive
    /\ [][\A t \in Tasks, eip \in IpPrefix :
              upload_endpoint_wrapper(t, eip) => C4_Entry(t, eip)]_vars

\* Two requests of one identity: one is inside the handler, the other was denied.
C4_Witness ==
    \E t1, t2 \in Tasks :
        /\ InHandler(t1)
        /\ req[t2].pc = "done" /\ req[t2].status = 429 /\ req[t2].note = "already uploading"
        /\ req[t2].ip = req[t1].ip

\* C5: whenever the guarded handler has returned a response, of whatever status, the
\* wrapper hands it on only after removing the identity: right after that step the
\* identity is no member of uploading.
C5_ReleasedOnReturn ==
    [][\A t \in Tasks :
          (Guarded(t) /\ req'[t].pc = "done" /\ req'[t].status # 0)
              => /\ req[t].pc = "ret"
                 /\ req[t].status \in {201, 400, 429, 500, 507}
                 /\ req'[t].status = req[t].status
                 /\ req[t].ip \notin uploading']_vars

\* Responses of a server error and of a client error were handed on, both released.
C5_Witness ==
    \E t1, t2 \in Tasks :
        /\ req[t1].pc = "done" /\ req[t1].status = 500
        /\ req[t2].pc = "done" /\ req[t2].status \in {400, 507} /\ req[t2].note = ""
        /\ req[t1].ip \notin uploading /\ req[t2].ip \notin uploading

\* C6 as stated: an identity stays in uploading only while one of its requests is still
\* guarded; once the request is gone (completed or cancelled) the entry is released, so a
\* later request of the identity is admitted.
C6_ReleasedOnCancel ==
    \A eip \in uploading : GuardedBy(eip) # {}

\* C10 as stated: no file and no row is created by an upload of size S while U + S > Q.
C10_QuotaEnforced ==
    [][\A t \in Tasks :
          (/\ req[t].kind = "upload"
           /\ \/ req[t].hash \in DOMAIN uploaded_files' \ DOMAIN uploaded_files
              \/ req[t].pc = "file" /\ disk' # disk)
              => TotalQuota + req[t].size <= conf.maximum_quota]_vars

(***************************************************************************)
(* Claims on lazy expiry (SpecStore).                                      *)
(***************************************************************************)
\* The row of hash exists and its expiry has passed.
ExpiredRow(hash) ==
    hash \in DOMAIN uploaded_files /\ uploaded_files[hash].expiry_ts < now

\* This step is the first of a handler of one of these kinds in slot t: the request has
\* arrived and the handler has run up to its first answer or its next await.
Entered(t, kinds) ==
    /\ Free(t)
    /\ req'[t] # req[t]
    /\ req'[t].kind \in kinds

\* Slot t answers not found (or the 500 of a failed query) and the store is untouched.
NotFound(t) ==
    /\ req'[t].pc = "done"
    /\ req'[t].status \in {404, 500}
    /\ UNCHANGED storeVars

\* C7: download_endpoint and download_page answer 404 for a well-formed hash whose row
\* exists but has expired, exactly as for a hash with no row, and leave rows (the download
\* counter included) and files untouched.
C7_LazyExpiryOnRead ==
    [][\A t \in Tasks :
          (/\ Entered(t, {"download", "page"})
           /\ StrLen(req'[t].hash) = HashLen
           /\ ExpiredRow(req'[t].hash) \/ req'[t].hash \notin DOMAIN uploaded_files)
              => NotFound(t)]_vars

\* A file downloaded once while live, then expired yet still stored, was asked for again:
\* 404, and its counter still reads one.
C7_Witness ==
    \E t \in Tasks :
        /\ req[t].pc = "done" /\ req[t].kind = "download" /\ req[t].status = 404
        /\ ExpiredRow(req[t].hash)
        /\ uploaded_files[req[t].hash].downloads = 1
        /\ req[t].hash \in DOMAIN disk

\* C8 as stated: a delete request for a row that has expired but is still stored is
\* answered not found at once, whatever admin key or session comes with it.
C8_LazyExpiryOnDelete ==
    [][\A t \in Tasks :
          (Entered(t, {"delete"}) /\ ExpiredRow(req'[t].hash)) => NotFound(t)]_vars

\* C9 as stated: a delete request for a live file whose admin key did not match and whose
\* session had expired before the request arrived (its row still stored) is denied.
C9_ExpiredSessionDenied ==
    [][\A t \in Tasks :
          (/\ delete_endpoint_session(t)
           /\ req[t].hash \in DOMAIN uploaded_files /\ ~ExpiredRow(req[t].hash)
           /\ req[t].cookie \in DOMAIN admin_sessions
           /\ admin_sessions[req[t].cookie] < req[t].at)
              => /\ req'[t].pc = "done"
                 /\ req'[t].status \in {401, 500}]_vars

(***************************************************************************)
(* Claims on the upload limits (SpecSequential, SpecFull).                 *)
(***************************************************************************)
\* Slot t takes the step of upload_endpoint that starts at position pc.
UploadStep(t, pc) ==
    /\ req[t].kind = "upload"
    /\ req[t].pc = pc
    /\ req'[t] # req[t]

\* The upload in slot t is rejected by this step.
Rejected(t) == req'[t].pc = "ret" /\ req'[t].status \in {400, 429, 500, 507}

\* C11 as stated: while maximum_quota - used bytes < maximum_filesize, the quota check
\* rejects every upload.
C11_UploadsDisabled ==
    [][\A t \in Tasks :
          (/\ UploadStep(t, "quota")
           /\ conf.maximum_quota - TotalQuota < conf.maximum_filesize)
              => Rejected(t)]_vars

\* C12 as stated: the count check rejects an upload of an identity that already has
\* maximum_uploads_per_ip stored files.
C12_UploadLimit ==
    [][\A t \in Tasks :
          (/\ UploadStep(t, "count")
           /\ UploadsBy(req[t].ip) >= conf.maximum_uploads_per_ip)
              => Rejected(t)]_vars

\* A store that is exactly full: identity ip4_a uploaded a file of maximum_filesize bytes.
InitFull ==
    /\ served = << >>
    /\ conf \in Configurations({MaxSmallCap})
    /\ InitRateLimiter
    /\ uploading = {}
    /\ uploaded_files = (EfdSha256sum("w") :> Stored("w", "ip4_a", HourDuration("week"), "r5"))
    /\ disk = [h \in DOMAIN uploaded_files |-> "complete"]
    /\ admin_sessions = << >>
    /\ now = 0
    /\ rng = 0
    /\ cron = Asleep
    /\ req = [t \in Tasks |-> Idle]

\* Concurrent uploads into the full store.
SpecFull == InitFull /\ [][NextUpload]_vars

\* The identities that upload after the store was filled: one with a request in flight
\* or with a row inserted since.
Uploaders ==
    {eip \in IpPrefix :
        \/ eip \in uploading
        \/ \E h \in DOMAIN uploaded_files \ {EfdSha256sum("w")} :
              uploaded_files[h].upload_ip = to_string(eip)}

\* C13: whatever the interleaving of the uploads of k identities, the stored bytes stay
\* within maximum_quota + k * maximum_filesize.
C13_BoundedOvershoot ==
    TotalQuota <= conf.maximum_quota + Cardinality(Uploaders) * conf.maximum_filesize

\* Two identities passed the quota check together and both files are stored: the usage
\* is more than one file above the quota.
C13_Witness ==
    /\ Cardinality(Uploaders) = 2
    /\ uploading = {}
    /\ TotalQuota > conf.maximum_quota + conf.maximum_filesize

(***************************************************************************)
(* Claims on the authorization of a delete request (SpecStore).            *)
(***************************************************************************)
\* The admin key slot t's delete request carried hashes to the digest stored for its file.
KeyMatches(t) ==
    /\ req'[t].hash \in DOMAIN uploaded_files
    /\ req'[t].key # ""
    /\ AdminKeyDigest(req'[t].key) = uploaded_files[req'[t].hash].admin_key_sha256sum

\* A row of admin_sessions matches the session cookie of slot t's delete request.
SessionMatches(t) == req[t].cookie \in DOMAIN admin_sessions

\* Slot t's delete request is denied by this step: 401 and nothing stored has changed.
Denied(t) ==
    /\ req'[t].pc = "done"
    /\ req'[t].status = 401
    /\ UNCHANGED storeVars

\* C14: a delete request goes on to destroy the file only if its admin key hashes to the
\* stored digest or a row of admin_sessions matches its cookie; a handler changes rows or
\* files only after that; and when neither check succeeded the answer is 401 (500 if the
\* session query failed) with rows, files and counters as they were.
C14_DeleteAuthorized ==
    [][\A t \in Tasks :
          /\ (/\ req'[t].kind = "delete"
              /\ req'[t].pc = "cleanup"
              /\ req[t].pc # "cleanup")
                 => \/ Free(t) /\ KeyMatches(t)
                    \/ req[t].pc = "session" /\ SessionMatches(t)
          /\ (/\ req'[t].kind = "delete"
              /\ req'[t] # req[t]
              /\ storeVars' # storeVars)
                 => req[t].pc \in {"cleanup", "unlink"}
          /\ (/\ req[t].kind = "delete"
              /\ req[t].pc = "session"
              /\ req'[t] # req[t]
              /\ ~SessionMatches(t))
                 => \/ Denied(t)
                    \/ req'[t].pc = "done" /\ req'[t].status = 500 /\ UNCHANGED storeVars]_vars

\* A delete request that carried neither the file's key nor a session cookie was answered
\* 401 and file x is still stored, row and blob.
C14_Witness ==
    \E t \in Tasks :
        /\ req[t].pc = "done" /\ req[t].kind = "delete" /\ req[t].status = 401
        /\ req[t].key = ""
        /\ req[t].hash = EfdSha256sum("x")
        /\ req[t].hash \in DOMAIN uploaded_files
        /\ req[t].hash \in DOMAIN disk

\* An admin key that is not base64url or does not decode to exactly KeyLen bytes.
Malformed(key) ==
    /\ key # ""
    /\ ~(Decode(key).ok /\ ByteLen(Decode(key).bytes) = KeyLen)

\* The malformed admin keys among the parameters clients send.
MalformedKeys == {admin \in AdminInputs : Malformed(AdminParam(admin))}
MalformedParams == {AdminParam(admin) : admin \in MalformedKeys}

\* C15: a malformed admin key matches the digest of no stored file: the download page of a
\* live file asked for with one is the plain page, never the owner's; a delete request carrying one goes on to the session check as
\* if it carried no key (no answer is produced for the key itself), and with no matching
\* session it ends in 401 (500 if the session query failed) with the store unchanged.
C15_MalformedKeyUnauthorized ==
    [][\A t \in Tasks :
             /\ (Entered(t, {"page"}) /\ req'[t].key \in MalformedParams)
                    => /\ req'[t].note = "file"
                       /\ UNCHANGED storeVars
             /\ (Entered(t, {"delete"}) /\ req'[t].key \in MalformedParams)
                    => /\ req'[t].pc = "session"
                       /\ UNCHANGED storeVars
             /\ (/\ req[t].kind = "delete"
                 /\ req[t].pc = "session"
                 /\ req[t].key \in MalformedParams
                 /\ req'[t] # req[t]
                 /\ ~SessionMatches(t))
                    => /\ req'[t].pc = "done"
                       /\ req'[t].status \in {401, 500}
                       /\ UNCHANGED storeVars]_vars

\* The owner's file x was asked to be deleted with text that is not base64url and with a
\* key of the wrong length: 401, and x is still stored.
C15_Witness ==
    \E t \in Tasks :
        /\ req[t].pc = "done" /\ req[t].kind = "delete" /\ req[t].status = 401
        /\ Malformed(req[t].key)
        /\ ~Decode(req[t].key).ok
        /\ req[t].hash = EfdSha256sum("x")
        /\ req[t].hash \in DOMAIN uploaded_files
        /\ req[t].hash \in DOMAIN disk

\* C16: a delete request for a well-formed hash that has no row is answered 404 (500 if
\* the row query failed) by the handler's first step, whatever admin key and session
\* cookie it carries, and nothing stored changes.
C16_NotFoundFirst ==
    [][\A t \in Tasks :
          (/\ Entered(t, {"delete"})
           /\ req'[t].hash \notin DOMAIN uploaded_files
           /\ StrLen(req'[t].hash) = HashLen)
              => NotFound(t)]_vars

\* The administrator, whose session is live, asked to delete a hash nothing is stored
\* under: 404.
C16_Witness ==
    \E t \in Tasks :
        /\ req[t].pc = "done" /\ req[t].kind = "delete" /\ req[t].status = 404
        /\ req[t].hash = EfdSha256sum("")
        /\ SessionLive(req[t].cookie)

(***************************************************************************)
(* The life of a file: upload, fetch, delete by its owner (SpecLifecycle). *)
(***************************************************************************)
\* The hashes of the ciphertexts clients upload.
LifecycleHashes == {EfdSha256sum(b) : b \in Blobs}

\* Admin keys presented: none, or one of the keys the uploads of the run hand out.
LifecycleKeys == {None} \cup {Some(Encode(RandomPool[i])) : i \in 1 .. MaxRandom}

\* One client, ip4_a, uploads, fetches and deletes.
Lifecycle(t) ==
    \/ upload_endpoint_wrapper(t, "ip4_a")
    \/ upload_count(t)
    \/ upload_quota(t)
    \/ upload_fields(t)
    \/ upload_file(t)
    \/ upload_row(t)
    \/ upload_endpoint_wrapper_leave(t)
    \/ \E hash \in LifecycleHashes : download_endpoint(t, Some(hash))
    \/ download_open(t)
    \/ download_update(t)
    \/ \E hash \in LifecycleHashes, admin \in LifecycleKeys :
          delete_endpoint(t, hash, admin, None)
    \/ delete_endpoint_session(t)
    \/ cleanup_file_row(t)
    \/ cleanup_file_unlink(t)

NextLifecycle ==
    \/ Lifecycle("t1")
    \/ Tick

\* One request after another: uploads, fetches and deletions while time passes; nobody
\* is logged in and the sweep does not run.
SpecLifecycle == InitUpload /\ [][NextLifecycle]_vars

\* The row of hash exists and has not expired.
Live(hash) ==
    hash \in DOMAIN uploaded_files /\ ~has_expired(uploaded_files[hash].expiry_ts)

\* The hash and admin key of the 201 response slot t's upload returns in this step.
Issued(t) == req[t].pc = "row" /\ req'[t].status = 201

\* C17: (issue) the 201 response's admin key K hashes to the digest stored for its hash H,
\* whose row expires after its upload and whose blob is on disk; (fetch) a download of a
\* live H goes through to 200 unless a query or the file system fails; (owner) a delete of a live H with a key
\* that hashes to H's digest is authorized; (others) with any other key or none, and no
\* session, it ends in 401 with nothing changed; (gone) when an authorized delete answers
\* 200 the row and the file of H are gone, and a fetch of a hash without row is answered
\* not found.
C17_Capability ==
    [][\A t \in Tasks :
          /\ Issued(t)
                => /\ req'[t].hash \in DOMAIN uploaded_files'
                   /\ uploaded_files'[req'[t].hash].expiry_ts
                         > uploaded_files'[req'[t].hash].upload_ts
                   /\ req'[t].hash \in DOMAIN disk'
                   /\ AdminKeyDigest(req'[t].key)
                         = uploaded_files'[req'[t].hash].admin_key_sha256sum
          /\ (Entered(t, {"download"}) /\ Live(req'[t].hash))
                => req'[t].pc = "open" \/ req'[t].status = 500
          /\ (req[t].kind = "download" /\ req[t].pc = "open" /\ req'[t] # req[t])
                => req'[t].pc = "update"
          /\ (req[t].kind = "download" /\ req[t].pc = "update" /\ req'[t] # req[t])
                => req'[t].status \in {200, 500}
          /\ (Entered(t, {"delete"}) /\ Live(req'[t].hash) /\ req'[t].pc # "done")
                => IF KeyMatches(t)
                   THEN req'[t].pc = "cleanup"
                   ELSE req'[t].pc = "session"
          /\ (req[t].kind = "delete" /\ req[t].pc = "session" /\ req'[t] # req[t])
                => Denied(t) \/ (req'[t].status = 500 /\ UNCHANGED storeVars)
          /\ (req[t].kind = "delete" /\ req[t].pc = "unlink" /\ req'[t].status = 200)
                => /\ req[t].hash \notin DOMAIN uploaded_files'
                   /\ req[t].hash \notin DOMAIN disk'
          /\ (Entered(t, {"download"}) /\ req'[t].hash \notin DOMAIN uploaded_files)
                => NotFound(t)]_vars

\* File x was uploaded, fetched once and then deleted with the key its upload returned:
\* row and blob are gone.
C17_Witness ==
    \E t \in Tasks :
        /\ req[t].pc = "done" /\ req[t].kind = "delete" /\ req[t].status = 200
        /\ req[t].note = "admin key"
        /\ req[t].hash \notin DOMAIN uploaded_files
        /\ req[t].hash \notin DOMAIN disk
        /\ rng > 0

\* The rows that have not expired.
LiveFiles == {h \in DOMAIN uploaded_files : Live(h)}

\* C19 as stated: an upload is refused for the identity's file count (429) or for the
\* global usage (507) only if the rows that have not expired, taken alone, exceed the
\* limit: expired rows not yet swept count for nothing.
C19_SnapshotLiveOnly ==
    [][\A t \in Tasks :
          /\ (UploadStep(t, "count") /\ req'[t].status = 429)
                => Cardinality({h \in LiveFiles :
                                  uploaded_files[h].upload_ip = to_string(req[t].ip)})
                      > conf.maximum_uploads_per_ip
          /\ (UploadStep(t, "quota") /\ req'[t].status = 507)
                => SumFilesize(LiveFiles) > conf.maximum_quota]_vars

(***************************************************************************)
(* The sweep of cleanup_cronjob while files are fetched and deleted        *)
(* (SpecSweep).                                                            *)
(***************************************************************************)
\* The requests that meet the sweep: downloads of the stored files and deletions by
\* their owner or by nobody in particular.
Sweep(t) ==
    \/ \E hash \in LifecycleHashes : download_endpoint(t, Some(hash))
    \/ download_open(t)
    \/ download_update(t)
    \/ \E hash \in LifecycleHashes, admin \in {None, Some(Encode("r5"))} :
          delete_endpoint(t, hash, admin, None)
    \/ delete_endpoint_session(t)
    \/ cleanup_file_row(t)
    \/ cleanup_file_unlink(t)

NextSweep ==
    \/ Sweep("t1")
    \/ cleanup_cronjob
    \/ Tick

\* cleanup_cronjob loops forever (auto_cleanup.rs:16): each of its steps is taken once it
\* can be, its queries and deletions succeed again and again, and a handler that deleted
\* a row goes on to remove the file.
FairSweep ==
    /\ SF_vars(cleanup_select_files /\ cron'.pc = "file")
    /\ SF_vars(cleanup_sweep_row /\ cron'.pc = "unlink")
    /\ WF_vars(cleanup_sweep_unlink)
    /\ WF_vars(cleanup_select_sessions)
    /\ WF_vars(cleanup_sweep_session)
    /\ WF_vars(cleanup_sleep)
    /\ WF_vars(cleanup_file_unlink("t1"))

SpecSweep == InitStore /\ [][NextSweep]_vars /\ FairSweep

\* Neither row nor blob of hash is left.
Removed(hash) == hash \notin DOMAIN uploaded_files /\ hash \notin DOMAIN disk

\* C18: a stored file whose expiry has passed is eventually removed, row and blob, as long
\* as cleanup_cronjob keeps running and its operations succeed.
C18_SweepLiveness ==
    \A hash \in LifecycleHashes : ExpiredRow(hash) ~> Removed(hash)

\* Nobody ever sent a request, and yet file x, expired, is gone from table and disk: the
\* sweep removed it.
C18_Witness ==
    /\ \A t \in Tasks : req[t] = Idle
    /\ now > HourDuration("hour")
    /\ Removed(EfdSha256sum("x"))
    /\ EfdSha256sum("y") \in DOMAIN uploaded_files

(***************************************************************************)
(* Claims on the order of file and row in an upload (SpecUpload).          *)
(***************************************************************************)
\* C20: a row is inserted only by the INSERT step of an upload whose blob is already on
\* disk, and it is the row of that upload's hash; an upload whose file could not be
\* created or written answers 500 and neither that step nor the rest of the request
\* touches the table.
C20_FileBeforeRow ==
    [][/\ uploaded_files' # uploaded_files
          => \E t \in Tasks :
                /\ UploadStep(t, "row")
                /\ req[t].hash \in DOMAIN disk
                /\ DOMAIN uploaded_files' = DOMAIN uploaded_files \cup {req[t].hash}
       /\ \A t \in Tasks :
             /\ (UploadStep(t, "file") /\ req'[t].pc # "row")
                   => /\ req'[t].pc = "ret"
                      /\ req'[t].status = 500
                      /\ UNCHANGED uploaded_files
             /\ (UploadStep(t, "file") /\ req'[t].pc = "row")
                   => req[t].hash \in DOMAIN disk' /\ disk'[req[t].hash] = "complete"
             /\ UploadStep(t, "ret") => UNCHANGED uploaded_files]_vars

\* An upload failed with 500 while writing its file: a partial blob is on disk and no
\* row was inserted for its hash.
C20_Witness ==
    \E t \in Tasks, h \in DOMAIN disk :
        /\ req[t].pc = "done" /\ req[t].kind = "upload" /\ req[t].status = 500
        /\ disk[h] = "partial"
        /\ h \notin DOMAIN uploaded_files
        /\ uploaded_files # << >>

\* error_handling.rs:42-59  what AppError::into_response writes to the log for a status.
LogLevel(status) ==
    IF status >= 400 /\ status < 500 /\ status # 404 THEN "warn"
    ELSE IF status >= 500 /\ status < 600 THEN "error"
    ELSE "none"

\* C21: when the INSERT of an upload fails, its file stays on disk as written, the table
\* is as it was (no row was added), the request returns 500, which into_response logs
\* as an error, and the handler makes no second attempt: its next step hands the
\* response on.
C21_InsertFailure ==
    [][\A t \in Tasks :
          (UploadStep(t, "row") /\ req'[t].status # 201)
             => /\ req'[t].pc = "ret"
                /\ req'[t].status = 500
                /\ LogLevel(req'[t].status) = "error"
                /\ UNCHANGED <<uploaded_files, disk>>
                /\ req[t].hash \in DOMAIN disk']_vars

\* No upload is in flight, one was answered 500, and a file written in full lies on disk
\* without a row: its INSERT failed.
C21_Witness ==
    /\ \A t \in Tasks : Free(t)
    /\ \E t \in Tasks : req[t].kind = "upload" /\ req[t].status = 500
    /\ \E h \in DOMAIN disk : disk[h] = "complete" /\ h \notin DOMAIN uploaded_files

(***************************************************************************)
(* Uploads, deletions and the sweep racing on one hash, every query and    *)
(* every file operation succeeding (SpecRace).                             *)
(***************************************************************************)
\* File x, uploaded at hour 0 for an hour by ip4_a, is all that is stored.
InitRace ==
    /\ served = << >>
    /\ conf \in Configurations({MaxSmallCap})
    /\ InitRateLimiter
    /\ uploading = {}
    /\ uploaded_files = (EfdSha256sum("x") :> Stored("x", "ip4_a", HourDuration("hour"), "r5"))
    /\ disk = [h \in DOMAIN uploaded_files |-> "complete"]
    /\ admin_sessions = << >>
    /\ now = 0
    /\ rng = 0
    /\ cron = Asleep
    /\ req = [t \in Tasks |-> Idle]

\* The admin keys of x: the one of hour 0 and the one a new upload of x is given.
RaceKeys == {Some(Encode("r5")), Some(Encode(RandomPool[1]))}

\* The steps of upload_endpoint and delete_endpoint in which nothing fails: the database
\* answers every query and files are created, written and removed. The uploads are those
\* of identity ip4_a, of forms in error or of ciphertext x.
Race(t) ==
    \/ upload_endpoint_wrapper(t, "ip4_a")
    \/ upload_count(t) /\ req'[t].status \notin {400, 500}
    \/ upload_quota(t) /\ req'[t].status # 500
    \/ /\ upload_fields(t)
       /\ req'[t].status # 500
       /\ req'[t].pc = "ret" \/ req'[t].hash = EfdSha256sum("x")
    \/ upload_file(t) /\ req'[t].pc = "row"
    \/ upload_row(t) /\ (req'[t].status = 201 \/ InsertRefused(req[t].hash))
    \/ upload_endpoint_wrapper_leave(t)
    \/ \E admin \in RaceKeys :
          /\ delete_endpoint(t, EfdSha256sum("x"), admin, None)
          /\ req'[t].status # 500
    \/ delete_endpoint_session(t) /\ req'[t].status # 500
    \/ cleanup_file_row(t) /\ req'[t].pc = "unlink"
    \/ cleanup_file_unlink(t)

\* The steps of cleanup_cronjob in which nothing fails.
RaceSweep ==
    \/ cleanup_select_files /\ cron'.pc = "file"
    \/ cleanup_sweep_row /\ cron'.pc = "unlink"
    \/ cleanup_sweep_unlink
    \/ cleanup_select_sessions /\ cron'.pc = "session"
    \/ cleanup_sleep

NextRace ==
    \/ \E t \in Tasks : Race(t)
    \/ RaceSweep
    \/ Tick

SpecRace == InitRace /\ [][NextRace]_vars

\* C22 as stated: every row of uploaded_files has its file on disk.
C22_RowHasFile == \A hash \in DOMAIN uploaded_files : hash \in DOMAIN disk

\* C23 as stated: the row cleanup_cronjob deletes and the file it removes are never those
\* of a file that is live at that moment.
C23_SweepOnlyExpired ==
    [][/\ (cron.pc = "file" /\ cron' # cron)
             => \A hash \in DOMAIN uploaded_files \ DOMAIN uploaded_files' : ~Live(hash)
       /\ (cron.pc = "unlink" /\ cron' # cron /\ disk' # disk)
             => ~Live(cron.file)]_vars

(***************************************************************************)
(* Destruction with a failing file system (SpecFaults, SpecRetry).         *)
(***************************************************************************)
\* delete.rs:110, auto_cleanup.rs:94-100  remove_file fails although the file is there:
\* the sweep logs the error and goes on with the next file of its list.
cleanup_sweep_unlink_failed ==
    /\ cron.pc = "unlink"
    /\ cron.file \in DOMAIN disk
    /\ cron' = [cron EXCEPT !.pc = "file", !.file = ""]
    /\ UNCHANGED <<conf, served, rlVars, uploading, storeVars, now, rng, req>>

\* delete.rs:110, 92  remove_file fails although the file is there: the error is bubbled
\* up by "?" and the request answered 500.
cleanup_file_unlink_failed(t) ==
    /\ req[t].kind = "delete"
    /\ req[t].pc = "unlink"
    /\ req[t].hash \in DOMAIN disk
    /\ Done(t, "delete", req[t].hash, 500, "remove_file failed")
    /\ UNCHANGED <<conf, served, cron, rlVars, uploading, storeVars, now, rng>>

\* Two uploads of hour 0, x for an hour by ip4_a and y for a day by ip6_b, and the
\* administrator's session of hour 0.
InitFaults ==
    /\ served = << >>
    /\ conf \in Configurations({MaxSmallCap})
    /\ InitRateLimiter
    /\ uploading = {}
    /\ uploaded_files = (EfdSha256sum("x") :> Stored("x", "ip4_a", HourDuration("hour"), "r5"))
                        @@ (EfdSha256sum("y") :> Stored("y", "ip6_b", HourDuration("day"), "r4"))
    /\ disk = [h \in DOMAIN uploaded_files |-> "complete"]
    /\ admin_sessions = (Encode(Sha256("r3")) :> SessionHours(FALSE))
    /\ now = 0
    /\ rng = 0
    /\ cron = Asleep
    /\ req = [t \in Tasks |-> Idle]

\* Downloads and deletions by the owner of x, with remove_file failing at will.
Faults(t) ==
    \/ \E hash \in LifecycleHashes : download_endpoint(t, Some(hash))
    \/ download_open(t)
    \/ download_update(t)
    \/ \E hash \in LifecycleHashes, admin \in {None, Some(Encode("r5"))} :
          delete_endpoint(t, hash, admin, None)
    \/ delete_endpoint_session(t)
    \/ cleanup_file_row(t)
    \/ cleanup_file_unlink(t)
    \/ cleanup_file_unlink_failed(t)

NextFaults ==
    \/ Faults("t1")
    \/ cleanup_cronjob
    \/ cleanup_sweep_unlink_failed
    \/ Tick

SpecFaults == InitFaults /\ [][NextFaults]_vars

\* The file of hash lies on disk without a row, and nobody is about to remove it: no
\* handler and no pass of the sweep has it in hand.
Orphaned(hash) ==
    /\ hash \in DOMAIN disk
    /\ hash \notin DOMAIN uploaded_files
    /\ cron.pc = "sleep"
    /\ \A t \in Tasks : ~(req[t].pc \in {"cleanup", "unlink"} /\ req[t].hash = hash)

\* This step is cleanup_file's DELETE, by the sweep or by the handler of a slot.
DeletesRow ==
    \/ cron.pc = "file" /\ cron' # cron /\ cron'.files # cron.files
    \/ \E t \in Tasks : req[t].kind = "delete" /\ req[t].pc = "cleanup" /\ req'[t] # req[t]

\* This step is cleanup_file's remove_file.
RemovesFile ==
    \/ cron.pc = "unlink" /\ cron' # cron
    \/ \E t \in Tasks : req[t].kind = "delete" /\ req[t].pc = "unlink" /\ req'[t] # req[t]

\* C24: cleanup_file deletes the row in one step, leaving the disk alone, and removes the
\* file in a later one, which it takes only if the DELETE succeeded; when remove_file
\* fails the row is gone and the file still there; a fetch of a hash without row is
\* answered 404; a pass of the sweep lists rows only; and a file orphaned in this way
\* stays on disk for good.
C24_RowFirstFileSecond ==
    /\ [][/\ DeletesRow => UNCHANGED disk
          /\ disk' # disk => RemovesFile
          /\ (cron.pc = "file" /\ cron'.pc = "unlink")
                => cron'.file \notin DOMAIN uploaded_files'
          /\ \A t \in Tasks :
                /\ (req[t].kind = "delete" /\ req'[t].pc = "unlink" /\ req[t].pc # "unlink")
                      => req[t].hash \notin DOMAIN uploaded_files'
                /\ (Entered(t, {"download"}) /\ req'[t].hash \notin DOMAIN uploaded_files)
                      => NotFound(t)
          /\ (cron.pc = "sleep" /\ cron' # cron) => cron'.files \subseteq DOMAIN uploaded_files
         ]_vars
    /\ \A hash \in LifecycleHashes : [](Orphaned(hash) => [](hash \in DOMAIN disk))

\* The sweep deleted the row of x, expired, and failed to remove its file; it has since
\* slept, and no request was ever made: the bytes of x lie on disk without a row.
C24_Witness ==
    /\ \A t \in Tasks : req[t] = Idle
    /\ Orphaned(EfdSha256sum("x"))

\* The sweep and the handlers keep running, and no failure lasts: a query, a DELETE or a
\* remove_file that is tried again and again succeeds in the end.
FairRetry ==
    /\ SF_vars(cleanup_select_files /\ cron'.pc = "file")
    /\ SF_vars(cleanup_sweep_row /\ cron'.pc = "unlink")
    /\ SF_vars(cleanup_sweep_unlink)
    /\ WF_vars(cleanup_select_sessions)
    /\ WF_vars(cleanup_sweep_session)
    /\ WF_vars(cleanup_sleep)
    /\ SF_vars(cleanup_file_row("t1") /\ req'["t1"].pc = "unlink")
    /\ SF_vars(cleanup_file_unlink("t1"))

SpecRetry == InitFaults /\ [][NextFaults]_vars /\ FairRetry

\* C25 as stated: a file whose row was deleted is in the end gone from disk as well, a
\* later pass of the sweep making up for a remove_file that failed.
C25_RetriedUntilGone ==
    \A hash \in LifecycleHashes : (hash \notin DOMAIN uploaded_files) ~> Removed(hash)

\* C26 as stated: a delete request whose row was deleted by cleanup_file is not answered
\* with a server error, whether remove_file fails or finds no file.
C26_InconsistencyNotFatal ==
    [][\A t \in Tasks :
          (req[t].kind = "delete" /\ req[t].pc = "unlink" /\ req'[t].pc = "done")
             => req'[t].status < 500]_vars

\* C28: in the file phase of a pass each step takes one file off the list and leaves the
\* others on it, whether its DELETE or its remove_file succeeds or fails; the pass leaves
\* the phase only when the list is empty, and then for the sessions; and whatever has
\* failed, cleanup_cronjob has a next step to take.
C28_FailureIsolated ==
    /\ [][/\ (cron.pc = "file" /\ cron.files # {} /\ cron' # cron)
                => (/\ cron'.pc \in {"file", "unlink"}
                    /\ \E h \in cron.files : cron'.files = cron.files \ {h})
          /\ (cron.pc = "unlink" /\ cron' # cron)
                => (cron'.pc = "file" /\ cron'.files = cron.files)
          /\ (cron.pc = "file" /\ cron'.pc \notin {"file", "unlink"})
                => (cron.files = {} /\ cron'.pc \in {"session", "sleep"})]_vars
    /\ [](ENABLED (cleanup_cronjob \/ cleanup_sweep_unlink_failed))

\* The DELETE of x failed in this pass, its row is still there although expired and the
\* pass has taken it off its list; the pass has gone on to y, whose row it has deleted
\* and whose file it is about to remove.
C28_Witness ==
    /\ cron.pc = "unlink"
    /\ cron.file = EfdSha256sum("y")
    /\ EfdSha256sum("x") \notin cron.files
    /\ ExpiredRow(EfdSha256sum("x"))
    /\ EfdSha256sum("y") \notin DOMAIN uploaded_files

(***************************************************************************)
(* The passes of cleanup_cronjob while requests are counted (SpecPass).    *)
(***************************************************************************)
NextPass ==
    \/ ip_prefix_ratelimiter("ip4_a")
    \/ cleanup_cronjob
    \/ Tick

\* The store of InitFaults, one client whose requests are counted, the sweep, the clock.
SpecPass == InitFaults /\ [][NextPass]_vars

\* This step is the leak at the start of a pass, and it changed some counter.
Decayed == rate_limiter' = LeakAndRetain /\ rate_limiter' # rate_limiter

\* C27 as stated: a pass that has applied the leak goes on to its phases, whether or not
\* the files could be listed: it is not back asleep before the sessions were looked at.
C27_PhasesIndependent ==
    [][(cron.pc = "sleep" /\ Decayed) => cron'.pc # "sleep"]_vars

(***************************************************************************)
(* The purge of administrator sessions (SpecPurge).                        *)
(***************************************************************************)
\* The files of InitFiles and three sessions of hour 0: two logins for a day, one for
\* thirty days.
SessionsOfHour0 ==
    (Encode(Sha256("r3")) :> SessionHours(FALSE))
    @@ (Encode(Sha256("r4")) :> SessionHours(FALSE))
    @@ (Encode(Sha256("r2")) :> SessionHours(TRUE))

InitPurge ==
    /\ InitFiles
    /\ admin_sessions = SessionsOfHour0

NextPurge ==
    \/ cleanup_cronjob
    \/ admin_logout("t1", Some(Encode("r4")))
    \/ Tick

\* cleanup_cronjob loops forever (auto_cleanup.rs:16): each of its steps is taken once it
\* can be, and a query or DELETE that is tried again and again succeeds in the end.
FairPurge ==
    /\ SF_vars(cleanup_select_files /\ cron'.pc = "file")
    /\ WF_vars(cleanup_sweep_row)
    /\ WF_vars(cleanup_sweep_unlink)
    /\ SF_vars(cleanup_select_sessions /\ cron'.pc = "session")
    /\ WF_vars(cleanup_sweep_session)
    /\ SF_vars(cleanup_sweep_session /\ admin_sessions' # admin_sessions)
    /\ WF_vars(cleanup_sleep)

\* The sweep, logouts and the clock, the sweep being fair.
SpecPurge == InitPurge /\ [][NextPurge]_vars /\ FairPurge

\* The session of this digest is stored and its expiry has passed.
ExpiredSession(s) == s \in DOMAIN admin_sessions /\ admin_sessions[s] < now

\* C29: a pass lists exactly the sessions whose expiry has passed; each step of its
\* session phase takes one session off the list, leaving the others on it whether the
\* DELETE succeeded or failed, and deletes none but that one, whose expiry has passed;
\* the pass ends only when the list is empty; and every session whose expiry has passed
\* is in the end deleted.
C29_SessionPurge ==
    /\ [][/\ (cron.pc = "file" /\ cron'.pc = "session")
                => cron'.sessions = {s \in DOMAIN admin_sessions : ExpiredSession(s)}
          /\ (cron.pc = "session" /\ cron.sessions # {} /\ cron' # cron)
                => \E s \in cron.sessions :
                      /\ cron' = [cron EXCEPT !.sessions = cron.sessions \ {s}]
                      /\ DOMAIN admin_sessions \ DOMAIN admin_sessions' \subseteq {s}
                      /\ s \in DOMAIN admin_sessions => ExpiredSession(s)
          /\ (cron.pc = "session" /\ cron'.pc # "session") => cron.sessions = {}
          /\ (cron' # cron /\ cron.pc # "session") => UNCHANGED admin_sessions]_vars
    /\ \A s \in DOMAIN SessionsOfHour0 :
          ExpiredSession(s) ~> (s \notin DOMAIN admin_sessions)

\* Nobody ever sent a request. In this pass the DELETE of the session of r3 failed: it is
\* still stored, expired and off the list, and the session of r4 has been deleted all
\* the same; the session of thirty days is untouched.
C29_Witness ==
    /\ \A t \in Tasks : req[t] = Idle
    /\ cron.pc = "session"
    /\ Encode(Sha256("r3")) \notin cron.sessions
    /\ ExpiredSession(Encode(Sha256("r3")))
    /\ Encode(Sha256("r4")) \notin DOMAIN admin_sessions
    /\ Encode(Sha256("r2")) \in DOMAIN admin_sessions

(***************************************************************************)
(* The leak of the rate limiter, pass after pass (SpecDecay).              *)
(***************************************************************************)
\* cleanup_cronjob loops forever and its leak needs nothing but the lock of the map
\* (auto_cleanup.rs:16-40): a pass that can change the map is taken in the end.
SpecDecay == InitRL /\ [][NextRL]_vars /\ WF_vars(cleanup_decay)

\* No counter grew and no entry appeared in this step: it is not a request's.
NoRequest ==
    \A k \in DOMAIN rate_limiter' :
       k \in DOMAIN rate_limiter /\ rate_limiter'[k] <= rate_limiter[k]

\* C30: a pass of the leak turns every counter v into max(0, v - max(1, cap / 96)) and
\* drops exactly the entries that came to 0; an entry that appears starts at 1; and an
\* identity that stops sending requests has no entry in the end.
C30_DecayAndRemoval ==
    /\ [][/\ NoRequest
                => \A k \in DOMAIN rate_limiter :
                      LET step == Max(1, conf.daily_request_limit_per_ip \div 96)
                          v == Max(0, rate_limiter[k] - step)
                      IN  IF v = 0 THEN k \notin DOMAIN rate_limiter'
                          ELSE k \in DOMAIN rate_limiter' /\ rate_limiter'[k] = v
          /\ \A k \in DOMAIN rate_limiter' \ DOMAIN rate_limiter : rate_limiter'[k] = 1]_vars
    /\ \A k \in IpPrefix :
          \/ []<><<ip_prefix_ratelimiter(k)>>_vars
          \/ []<>(k \notin DOMAIN rate_limiter)

\* Both identities had sent requests, ip6_b one more than ip4_a; the passes since have
\* brought ip4_a to 0 and dropped its entry, and left ip6_b with a counter of 1.
C30_Witness ==
    /\ bucket["ip4_a"].phase = "void"
    /\ bucket["ip6_b"].phase = "void"
    /\ "ip4_a" \notin DOMAIN rate_limiter
    /\ "ip6_b" \in DOMAIN rate_limiter
    /\ rate_limiter["ip6_b"] = 1

(***************************************************************************)
(* The write locks of rate_limiter and uploading (SpecLocks).              *)
(* RwLock::write().await hands out the guard when no other is alive; the   *)
(* steps below end where the guard is returned and where it is dropped.    *)
(***************************************************************************)
\* Some task, or cleanup_cronjob, holds the write guard of this lock.
Held(lock) == lock \in cron.locks \/ \E t \in Tasks : lock \in req[t].locks

\* Mutant: the guard is dropped at the end of the loop body only.
cleanup_leak_KeepGuard ==
    /\ cron.pc = "decay"
    /\ Decay
    /\ cron' = [cron EXCEPT !.pc = "select"]
    /\ UNCHANGED <<conf, served, rl_last, uploading, storeVars, now, rng, req>>

\* auto_cleanup.rs:20-23  the sleep ends: aps.rate_limiter.write().await
cleanup_lock ==
    /\ cron.pc = "sleep"
    /\ ~Held("rate_limiter")
    /\ cron' = [cron EXCEPT !.pc = "decay", !.locks = {"rate_limiter"}]
    /\ UNCHANGED <<conf, served, rlVars, uploading, storeVars, now, rng, req>>

\* auto_cleanup.rs:25-40  the leak, retain, drop(rl).
cleanup_leak ==
    /\ cron.pc = "decay"
    /\ Decay
    /\ cron' = [cron EXCEPT !.pc = "select", !.locks = {}]
    /\ UNCHANGED <<conf, served, rl_last, uploading, storeVars, now, rng, req>>

\* auto_cleanup.rs:49-80  SELECT all files and filter (the query succeeds).
cleanup_select ==
    /\ cron.pc = "select"
    /\ cron' = [cron EXCEPT !.pc = "file", !.files = ExpiredFiles]
    /\ UNCHANGED <<conf, served, rlVars, uploading, storeVars, now, rng, req>>

\* ip_prefix.rs:160  aps.rate_limiter.write().await
ratelimiter_lock(t, eip) ==
    /\ Free(t)
    /\ ~Held("rate_limiter")
    /\ EntryIncrement(eip) <= conf.daily_request_limit_per_ip + 1
    /\ req' = [req EXCEPT ![t] = [Idle EXCEPT !.pc = "rl", !.kind = "request", !.ip = eip,
                                          !.locks = {"rate_limiter"}]]
    /\ UNCHANGED <<conf, served, cron, rlVars, uploading, storeVars, now, rng>>

\* ip_prefix.rs:162-176  the counter is written and the guard dropped; then the handler
\* runs, or the request is answered 429.
ratelimiter_count(t) ==
    LET counter == EntryIncrement(req[t].ip) IN
    /\ req[t].pc = "rl"
    /\ rate_limiter' = WithCounter(req[t].ip, counter)
    /\ IF Admitted(counter)
       THEN req' = [req EXCEPT ![t].pc = "next", ![t].locks = {}]
       ELSE Done(t, "request", "", 429, "")
    /\ UNCHANGED <<conf, served, cron, rl_last, bucket, uploading, storeVars, now, rng>>

\* ip_prefix.rs:170  next.run(request).await: the handler behind the middleware answers.
ratelimiter_next(t) ==
    /\ req[t].pc = "next"
    /\ Done(t, "request", "", 200, "")
    /\ UNCHANGED <<conf, served, cron, rlVars, uploading, storeVars, now, rng>>

\* upload.rs:43  aps.uploading.write().await
upload_guard_lock(t, eip) ==
    /\ Free(t)
    /\ ~Held("uploading")
    /\ req' = [req EXCEPT ![t] = [Idle EXCEPT !.pc = "guard", !.kind = "upload", !.ip = eip,
                                          !.locks = {"uploading"}]]
    /\ UNCHANGED <<conf, served, cron, rlVars, uploading, storeVars, now, rng>>

\* upload.rs:43-50  insert(eip) and the end of the guard's statement: 429, or the handler.
upload_guard_insert(t) ==
    /\ req[t].pc = "guard"
    /\ IF ~GuardInsert(req[t].ip)
       THEN /\ req' = [req EXCEPT ![t] = [Idle EXCEPT !.pc = "done", !.kind = "upload",
                          !.ip = req[t].ip, !.status = 429, !.note = "already uploading"]]
            /\ UNCHANGED uploading
       ELSE /\ uploading' = uploading \cup {req[t].ip}
            /\ req' = [req EXCEPT ![t].pc = "count", ![t].locks = {}]
    /\ UNCHANGED <<conf, served, cron, rlVars, storeVars, now, rng>>

\* upload.rs:52  the handler has returned: aps.uploading.write().await
upload_guard_relock(t) ==
    /\ req[t].kind = "upload"
    /\ req[t].pc = "ret"
    /\ ~Held("uploading")
    /\ req' = [req EXCEPT ![t].pc = "unguard", ![t].locks = {"uploading"}]
    /\ UNCHANGED <<conf, served, cron, rlVars, uploading, storeVars, now, rng>>

\* upload.rs:52-55  remove(&eip) and the end of the guard's statement; the response.
upload_guard_remove(t) ==
    /\ req[t].pc = "unguard"
    /\ uploading' = uploading \ {req[t].ip}
    /\ req' = [req EXCEPT ![t].pc = "done", ![t].locks = {}]
    /\ UNCHANGED <<conf, served, cron, rlVars, storeVars, now, rng>>

\* File x of hour 0, expired since, is all that is stored at hour 2.
InitLocks ==
    /\ served = << >>
    /\ conf \in Configurations({MaxSmallCap})
    /\ InitRateLimiter
    /\ uploading = {}
    /\ uploaded_files = (EfdSha256sum("x") :> Stored("x", "ip4_a", HourDuration("hour"), "r5"))
    /\ disk = [h \in DOMAIN uploaded_files |-> "complete"]
    /\ admin_sessions = << >>
    /\ now = 2
    /\ rng = 0
    /\ cron = Asleep
    /\ req = [t \in Tasks |-> Idle]

\* Requests through the rate limiter and uploads of ciphertext x for an hour, by the
\* identity eip in slot t; nothing fails.
Locks(t, eip) ==
    \/ ratelimiter_lock(t, eip)
    \/ ratelimiter_count(t)
    \/ ratelimiter_next(t)
    \/ upload_guard_lock(t, eip)
    \/ upload_guard_insert(t)
    \/ upload_count(t) /\ req'[t].status \notin {400, 500}
    \/ upload_quota(t) /\ req'[t].status # 500
    \/ /\ upload_fields(t)
       /\ req'[t].pc = "file"
       /\ req'[t].hash = EfdSha256sum("x")
       /\ req'[t].hours = HourDuration("hour")
    \/ upload_file(t) /\ req'[t].pc = "row"
    \/ upload_row(t) /\ (req'[t].status = 201 \/ InsertRefused(req[t].hash))
    \/ upload_guard_relock(t)
    \/ upload_guard_remove(t)

\* The pass of cleanup_cronjob, nothing failing.
LocksSweep ==
    \/ cleanup_lock
    \/ cleanup_leak
    \/ cleanup_select
    \/ cleanup_sweep_row /\ cron'.pc = "unlink"
    \/ cleanup_sweep_unlink
    \/ cleanup_select_sessions /\ cron'.pc = "session"
    \/ cleanup_sleep

\* One identity per slot, and the sweep.
NextLocks ==
    \/ Locks("t1", "ip4_a")
    \/ Locks("t2", "ip6_b")
    \/ LocksSweep

SpecLocks == InitLocks /\ [][NextLocks]_vars

\* The positions from which cleanup_cronjob issues a query, a DELETE or a remove_file.
SweepIO == {"select", "file", "unlink", "session"}

\* The positions from which a handler awaits the database, the disk, the request body or
\* the handler behind it.
HandlerIO == {"next", "count", "quota", "fields", "file", "row"}

\* The tasks holding the write guard of this lock (cleanup_cronjob as "cron").
Holders(lock) ==
    {t \in Tasks : lock \in req[t].locks} \cup (IF lock \in cron.locks THEN {"cron"} ELSE {})

\* C31: a write guard has one holder at most; cleanup_cronjob takes its steps of I/O
\* holding no guard, and so does every handler, the rate limiter's guard being dropped
\* before the handler behind it runs and the one of uploading before upload_endpoint
\* runs; hence, while the sweep is in its deletion phases or ip6_b's upload in flight, a
\* request of ip4_a obtains either guard unless a task is at that moment between
\* obtaining and dropping it.
C31_NoLockAcrossIO ==
    /\ [][/\ (cron' # cron /\ cron.pc \in SweepIO) => (cron.locks = {} /\ cron'.locks = {})
          /\ \A t \in Tasks :
                (req'[t] # req[t] /\ req[t].pc \in HandlerIO) => req[t].locks = {}]_vars
    /\ [](\A lock \in {"rate_limiter", "uploading"} : Cardinality(Holders(lock)) <= 1)
    /\ []((Free("t1") /\ (cron.pc \in SweepIO \/ Guarded("t2")))
             => /\ (req["t2"].pc # "rl" /\ cron.pc # "decay"
                       /\ EntryIncrement("ip4_a") <= conf.daily_request_limit_per_ip + 1)
                      => ENABLED ratelimiter_lock("t1", "ip4_a")
                /\ req["t2"].pc \notin {"guard", "unguard"}
                      => ENABLED upload_guard_lock("t1", "ip4_a"))

\* The upload of ip6_b is about to insert its row and the sweep about to remove a file,
\* and the request of ip4_a has obtained the rate limiter's guard.
C31_Witness ==
    /\ req["t2"].kind = "upload" /\ req["t2"].pc = "row"
    /\ cron.pc = "unlink"
    /\ req["t1"].pc = "rl"
    /\ Holders("rate_limiter") = {"t1"}

(***************************************************************************)
(* ExtractIpPrefix::from_request_parts (ip_prefix.rs), SpecExtract.        *)
(***************************************************************************)
\* The pieces headers are made of: two address literals, a piece that belongs to no
\* address, the comma and the space.
Atoms == {"10.0.0.1", "2001:db8::1", "x", ",", " "}

\* Headers of at most this many pieces, and trust depths up to this one.
MaxHeaderLen == 3
MaxProxyDepth == 2

Texts == UNION {[1 .. n -> Atoms] : n \in 0 .. MaxHeaderLen}

\* Option<&HeaderValue> of parts.headers.get("X-Forwarded-For").
Headers == {[some |-> FALSE, v |-> << >>]} \cup {[some |-> TRUE, v |-> text] : text \in Texts}

\* str::split(' '): the pieces between the spaces, empty ones included; never empty.
RECURSIVE split(_)
split(text) ==
    IF text = << >> THEN << << >> >>
    ELSE LET rest == split(Tail(text)) IN
         IF Head(text) = " " THEN << << >> >> \o rest
         ELSE << <<Head(text)>> \o Head(rest) >> \o Tail(rest)

\* IpAddr::from_str(v).ok() followed by IpPrefix::from (ip_prefix.rs:25-38, 140, 148).
IpPrefixFromStr(v) ==
    IF v = <<"10.0.0.1">> THEN [ok |-> TRUE, eip |-> "ip4_a"]
    ELSE IF v = <<"2001:db8::1">> THEN [ok |-> TRUE, eip |-> "ip6_b"]
    ELSE [ok |-> FALSE, eip |-> ""]

\* Slot t has answered as the extractor's outcome says; "panic" is the task unwinding
\* without a response.
Extracted(t, header, outcome) ==
    req' = [req EXCEPT ![t] = [Idle EXCEPT !.pc = "done", !.kind = "extract", !.xff = header,
                                          !.ip = IF outcome.ok THEN outcome.eip ELSE "",
                                          !.status = IF outcome.ok THEN 200
                                                     ELSE IF outcome.eip = "panic" THEN 0
                                                     ELSE 500]]

\* ip_prefix.rs:111-149  peer is the address of the socket, if axum recorded one;
\* overflow_checks says whether the build panics when a subtraction overflows or wraps
\* (a wrapped index lies beyond every length, and get() yields None).
from_request_parts(t, header, peer, overflow_checks) ==
    /\ Free(t)
    /\ IF conf.proxy_depth = 0
       THEN Extracted(t, header, IF peer.some THEN IpPrefixFromStr(peer.v)
                                 ELSE [ok |-> FALSE, eip |-> ""])
       ELSE LET forwarded_ips == split(IF header.some THEN header.v ELSE << >>)
                index == Len(forwarded_ips) - conf.proxy_depth
            IN  IF index < 0
                THEN IF overflow_checks
                     THEN Extracted(t, header, [ok |-> FALSE, eip |-> "panic"])
                     ELSE Extracted(t, header, [ok |-> FALSE, eip |-> ""])
                ELSE Extracted(t, header, IpPrefixFromStr(forwarded_ips[index + 1]))
    /\ UNCHANGED <<conf, served, cron, rlVars, uploading, storeVars, now, rng>>

\* Any trust depth up to MaxProxyDepth.
InitExtract ==
    /\ served = << >>
    /\ conf \in {[c EXCEPT !.proxy_depth = n] :
                    c \in Configurations({MaxSmallCap}), n \in 0 .. MaxProxyDepth}
    /\ InitRateLimiter
    /\ InitEmpty

NextExtract ==
    \E header \in Headers, overflow_checks \in BOOLEAN,
       peer \in {None, Some(<<"10.0.0.1">>), Some(<<"2001:db8::1">>)} :
       from_request_parts("t1", header, peer, overflow_checks)

SpecExtract == InitExtract /\ [][NextExtract]_vars

\* The entries of a list delimited by spaces and commas.
RECURSIVE Entries(_)
Entries(text) ==
    IF text = << >> THEN << << >> >>
    ELSE LET rest == Entries(Tail(text)) IN
         IF Head(text) \in {" ", ","} THEN << << >> >> \o rest
         ELSE << <<Head(text)>> \o Head(rest) >> \o Tail(rest)

\* The entries that are not empty.
NonEmpty(entries) == SelectSeq(entries, LAMBDA e : e # << >>)

\* C32 as stated: with a trust depth N >= 1 the answer is the identity of the entry N
\* from the end of the list, if the header has that many entries and that one is an
\* address, and 500 otherwise; the task never unwinds.
C32_ForwardedIdentity ==
    \A t \in Tasks :
       (req[t].kind = "extract" /\ conf.proxy_depth >= 1)
          => LET entries == NonEmpty(Entries(req[t].xff.v))
                 index == Len(entries) - conf.proxy_depth
                 wanted == IF req[t].xff.some /\ index >= 0
                           THEN IpPrefixFromStr(entries[index + 1])
                           ELSE [ok |-> FALSE, eip |-> ""]
             IN  IF wanted.ok THEN req[t].status = 200 /\ req[t].ip = wanted.eip
                 ELSE req[t].status = 500

(***************************************************************************)
(* The duration of an upload and the timestamps of its row (SpecDuration). *)
(***************************************************************************)
\* Forms that are well-formed but for their duration: the three known ones, an unknown
\* and an empty one, and the form that has no duration field.
DurationForms ==
    {Form(b, d) : b \in Blobs, d \in {"hour", "day", "week", "month", ""}}
    \cup {SubSeq(Form("x", "hour"), 1, 4)}

\* The text of the form's last duration field, "none" if it has none.
RECURSIVE DurationOf(_)
DurationOf(form) ==
    IF form = << >> THEN "none"
    ELSE IF form[Len(form)].name = "duration" THEN form[Len(form)].data
    ELSE DurationOf(SubSeq(form, 1, Len(form) - 1))

BadDurationForms == {form \in DurationForms : DurationOf(form) \notin {"hour", "day", "week"}}

\* The uploads of ip4_a in one slot; no query and no file operation fails.
Duration(t) ==
    \/ upload_endpoint_wrapper(t, "ip4_a")
    \/ upload_count(t) /\ req'[t].status \notin {400, 500}
    \/ upload_quota(t) /\ req'[t].status # 500
    \/ \E form \in DurationForms : upload_form(t, form, TRUE)
    \/ upload_file(t) /\ req'[t].pc = "row"
    \/ upload_row(t) /\ (req'[t].status = 201 \/ InsertRefused(req[t].hash))
    \/ upload_endpoint_wrapper_leave(t)

NextDuration ==
    \/ Duration("t1")
    \/ Tick

SpecDuration == InitUpload /\ [][NextDuration]_vars

\* C33: a row that appears has its expiry 1, 24 or 168 hours after its creation, hence
\* strictly after it; the upload of a form whose duration is missing or none of hour,
\* day, week is answered 400 by the step that reads the form, and neither that step nor
\* the rest of the request changes the table or the disk.
C33_ExpiryAfterCreation ==
    [][/\ \A hash \in DOMAIN uploaded_files' \ DOMAIN uploaded_files :
             /\ uploaded_files'[hash].expiry_ts - uploaded_files'[hash].upload_ts
                   \in {1, 24, 168}
             /\ uploaded_files'[hash].expiry_ts > uploaded_files'[hash].upload_ts
       /\ \A t \in Tasks, form \in BadDurationForms :
             upload_form(t, form, TRUE)
                => /\ req'[t].pc = "ret" /\ req'[t].status = 400
                   /\ UNCHANGED <<uploaded_files, disk>>
       /\ \A t \in Tasks :
             (UploadStep(t, "ret") /\ req[t].status = 400)
                => UNCHANGED <<uploaded_files, disk>>]_vars

\* File x was uploaded at hour 1 for a week; a later upload, its duration wrong, has
\* been answered 400, and x is all there is on disk.
C33_Witness ==
    /\ req["t1"].pc = "done" /\ req["t1"].status = 400
    /\ DOMAIN uploaded_files = {EfdSha256sum("x")}
    /\ uploaded_files[EfdSha256sum("x")].upload_ts = 1
    /\ uploaded_files[EfdSha256sum("x")].expiry_ts = 1 + 24 * 7
    /\ DOMAIN disk = {EfdSha256sum("x")}

(***************************************************************************)
(* The download counter under concurrent downloads (SpecCounter).          *)
(***************************************************************************)
\* Downloads are followed while the counter they read is below this.
MaxCounted == 2

\* Downloads of the two stored files, in any slot.
Counter(t) ==
    \/ \E hash \in LifecycleHashes : download_query(t, Some(hash), MaxCounted)
    \/ download_open(t)
    \/ download_write(t, TRUE)

NextCounter == \E t \in Tasks : Counter(t)

\* The files of InitFiles at hour 0 and concurrent downloads of them.
SpecCounter == InitStore /\ [][NextCounter]_vars

\* The counter of hash in this state, 0 when there is no row.
Downloads(hash) == IF hash \in DOMAIN uploaded_files THEN uploaded_files[hash].downloads ELSE 0

\* Slot t takes the UPDATE step of a download and the UPDATE succeeds.
Counts(t) ==
    /\ req[t].kind = "download" /\ req[t].pc = "update"
    /\ req'[t].pc = "done" /\ req'[t].status = 200

\* C34: the counter changes in the UPDATE step of a download only, which writes the
\* value the download read plus 1: exactly one more than the counter when no other
\* download has written since the read; and the counter never exceeds the number of
\* UPDATEs executed for its file.
C34_ApproximateCounter ==
    /\ [][\A hash \in LifecycleHashes :
             /\ Downloads(hash)' # Downloads(hash)
                   => \E t \in Tasks : Counts(t) /\ req[t].hash = hash
             /\ \A t \in Tasks :
                   (Counts(t) /\ req[t].hash = hash)
                      => /\ Downloads(hash)' = req[t].downloads + 1
                         /\ Served(hash)' = Served(hash) + 1
                         /\ req[t].downloads = Downloads(hash)
                               => Downloads(hash)' = Downloads(hash) + 1]_vars
    /\ [](\A hash \in LifecycleHashes : Downloads(hash) <= Served(hash))

\* Both slots have served a download of x, and the counter of x is 1: one increment
\* was lost.
C34_Witness ==
    /\ \A t \in Tasks :
          /\ req[t].kind = "download" /\ req[t].pc = "done" /\ req[t].status = 200
          /\ req[t].hash = EfdSha256sum("x")
    /\ Downloads(EfdSha256sum("x")) = 1

\* C35 as stated: the counter of a row never decreases.
C35_CounterMonotone ==
    [][\A hash \in DOMAIN uploaded_files \cap DOMAIN uploaded_files' :
          uploaded_files'[hash].downloads >= uploaded_files[hash].downloads]_vars

(***************************************************************************)
(* The denied upload and the guard (SpecUpload).                           *)
(***************************************************************************)
\* Slot t is denied by the guard in this step.
DeniedByGuard(t) ==
    /\ Entered(t, {"upload"})
    /\ req'[t].pc = "done"
    /\ req'[t].status = 429

\* C36: a request denied by the guard leaves uploading as it is, its identity in it and
\* the upload in flight where it was; every request of an identity that is in uploading
\* is denied, a further one after a denied one as well; and an identity leaves uploading
\* only in the step in which a guarded request of it hands on its response.
C36_DeniedLeavesGuard ==
    [][/\ \A t \in Tasks :
             DeniedByGuard(t)
                => /\ uploading' = uploading
                   /\ req'[t].ip \in uploading'
                   /\ \E u \in Tasks \ {t} :
                         Guarded(u) /\ req[u].ip = req'[t].ip /\ req'[u] = req[u]
       /\ \A t \in Tasks, eip \in uploading :
             upload_endpoint_wrapper(t, eip) => DeniedByGuard(t)
       /\ \A eip \in uploading \ uploading' :
             \E u \in Tasks :
                req[u].pc = "ret" /\ req[u].ip = eip /\ req'[u].pc = "done"]_vars

\* The upload of slot t1 has written its file and is about to insert its row; a request
\* of the same identity was denied meanwhile, and the identity is still in uploading.
C36_Witness ==
    /\ req["t1"].kind = "upload" /\ req["t1"].pc = "row"
    /\ req["t2"].kind = "upload" /\ req["t2"].pc = "done" /\ req["t2"].status = 429
    /\ req["t2"].ip = req["t1"].ip
    /\ uploading = {req["t1"].ip}

(***************************************************************************)
(* A second upload of stored ciphertext (SpecDuplicate).                   *)
(***************************************************************************)
\* The admin keys presented for x: the one of hour 0 and those the uploads of the run are
\* given.
DuplicateKeys == {Some(Encode("r5"))} \cup {Some(Encode(RandomPool[i])) : i \in 1 .. MaxRandom}

\* Identity eip uploads ciphertext x (or a form in error); the INSERT may fail, everything
\* else succeeds.
DuplicateUpload(t, eip) ==
    \/ upload_endpoint_wrapper(t, eip)
    \/ upload_count(t) /\ req'[t].status \notin {400, 500}
    \/ upload_quota(t) /\ req'[t].status # 500
    \/ /\ upload_fields(t)
       /\ req'[t].status # 500
       /\ req'[t].pc = "ret" \/ req'[t].hash = EfdSha256sum("x")
    \/ upload_file(t) /\ req'[t].pc = "row"
    \/ upload_row(t)
    \/ upload_endpoint_wrapper_leave(t)

\* Deletions of x by admin key, every query and removal succeeding.
DuplicateDelete(t) ==
    \/ \E admin \in DuplicateKeys :
          /\ delete_endpoint(t, EfdSha256sum("x"), admin, None)
          /\ req'[t].status # 500
    \/ delete_endpoint_session(t) /\ req'[t].status # 500
    \/ cleanup_file_row(t) /\ req'[t].pc = "unlink"
    \/ cleanup_file_unlink(t)

NextDuplicate ==
    \/ DuplicateUpload("t1", "ip6_b")
    \/ DuplicateDelete("t2")
    \/ Tick

\* x was stored at hour 0 by ip4_a (InitRace); ip6_b uploads the same ciphertext while
\* admin keys are presented for deleting x.
SpecDuplicate == InitRace /\ [][NextDuplicate]_vars

\* The row of x is the one ip4_a stored at hour 0.
OriginalRow ==
    /\ EfdSha256sum("x") \in DOMAIN uploaded_files
    /\ uploaded_files[EfdSha256sum("x")].upload_ip = to_string("ip4_a")

\* C37: no step of an upload changes or removes a row that exists; the INSERT for a stored
\* hash answers 500 and hands out no admin key; and as long as the row of hour 0 is there
\* it equals what was stored but for its downloads, its key authorizes the deletion and
\* none of the keys generated later does.
C37_DuplicateKeepsRow ==
    /\ [][\A t \in Tasks :
             /\ (req'[t].kind = "upload" /\ req'[t] # req[t])
                   => \A h \in DOMAIN uploaded_files :
                         h \in DOMAIN uploaded_files' /\ uploaded_files'[h] = uploaded_files[h]
             /\ (UploadStep(t, "row") /\ req[t].hash \in DOMAIN uploaded_files)
                   => (req'[t].status = 500 /\ req'[t].key = Idle.key)]_vars
    /\ [](OriginalRow
            => /\ uploaded_files[EfdSha256sum("x")] =
                     Stored("x", "ip4_a", HourDuration("hour"), "r5")
               /\ KeyAuthorizes(EfdSha256sum("x"), Some(Encode("r5")))
               /\ \A i \in 1 .. MaxRandom :
                     ~KeyAuthorizes(EfdSha256sum("x"), Some(Encode(RandomPool[i]))))

\* ip6_b's upload of x was refused at the INSERT while the row of hour 0 was there, and
\* the key of hour 0 is then accepted for its deletion.
C37_Witness ==
    /\ req["t1"].kind = "upload" /\ req["t1"].pc = "done" /\ req["t1"].status = 500
    /\ rng > 0
    /\ OriginalRow
    /\ req["t2"].kind = "delete" /\ req["t2"].pc = "cleanup"
    /\ req["t2"].key = Encode("r5")

(***************************************************************************)
(* The rejected upload and the store (SpecUpload).                         *)
(***************************************************************************)
\* The statuses of upload_endpoint's own rejections: 400 for the form, 429 for the
\* identity's limit, 507 for the quota.
RejectionStatus == {400, 429, 507}

\* The positions of upload_endpoint before the file is created.
Validation == {"count", "quota", "fields"}

\* C38: an upload is rejected with 400, 429 or 507 only by a step of its validation, and
\* no step an upload takes up to the end of its validation, nor the step that hands on
\* the rejection, changes uploaded_files or the files on disk.
C38_RejectedLeavesStore ==
    [][\A t \in Tasks :
          /\ (/\ req[t].kind = "upload"
              /\ req'[t].pc = "ret" /\ req[t].pc # "ret"
              /\ req'[t].status \in RejectionStatus)
                => req[t].pc \in Validation
          /\ (\/ Entered(t, {"upload"})
              \/ \E pc \in Validation : UploadStep(t, pc)
              \/ UploadStep(t, "ret") /\ req[t].status \in RejectionStatus)
                => (uploaded_files' = uploaded_files /\ disk' = disk)]_vars

\* Something is stored, and an upload was answered 400 for its form.
C38_Witness ==
    /\ DOMAIN uploaded_files # {}
    /\ DOMAIN disk = DOMAIN uploaded_files
    /\ \E t \in Tasks :
          req[t].kind = "upload" /\ req[t].pc = "done" /\ req[t].status = 400

(***************************************************************************)
(* Login, logout and what the session id opens (SpecLogout).               *)
(***************************************************************************)
\* The "id" cookies presented: none, or a session id handed out by a login of the run.
LogoutCookies == {None} \cup {Some(Encode(RandomPool[i])) : i \in 1 .. MaxRandom}

\* Slot t1 logs in; slot t2 logs out, asks for the dashboard and deletes x by session.
NextLogout ==
    \/ \E password_ok, long_login \in BOOLEAN : admin_login("t1", password_ok, long_login)
    \/ \E cookie \in LogoutCookies : admin_logout("t2", cookie)
    \/ \E cookie \in LogoutCookies : admin_page("t2", cookie)
    \/ \E cookie \in LogoutCookies : delete_endpoint("t2", EfdSha256sum("x"), None, cookie)
    \/ delete_endpoint_session("t2")
    \/ cleanup_file_row("t2")
    \/ cleanup_file_unlink("t2")
    \/ Tick

SpecLogout == InitSession /\ [][NextLogout]_vars

\* The digests of the session ids handed out so far.
HandedOut == {SessionDigest(Some(Encode(RandomPool[i]))) : i \in 1 .. rng}

\* C39: a login that does not succeed leaves admin_sessions as it is; one that succeeds
\* adds exactly one row, keyed by the digest of the fresh id of its cookie and expiring 24
\* or 720 hours later; a logout that is answered with its redirect leaves no row of its
\* cookie's digest; an id without row opens neither the dashboard nor a deletion; and the
\* rows are those of ids handed out before, so that a row removed does not come back.
C39_SessionLifecycle ==
    /\ [][\A t \in Tasks :
             /\ (Entered(t, {"login"}) /\ req'[t].note # "session")
                   => admin_sessions' = admin_sessions
             /\ (Entered(t, {"login"}) /\ req'[t].note = "session")
                   => LET id == SessionDigest(Some(Encode(Random32))) IN
                      /\ id \notin DOMAIN admin_sessions
                      /\ DOMAIN admin_sessions' = DOMAIN admin_sessions \cup {id}
                      /\ \A s \in DOMAIN admin_sessions : admin_sessions'[s] = admin_sessions[s]
                      /\ admin_sessions'[id] \in {now + 24, now + 24 * 30}
                      /\ rng' = rng + 1
             /\ \A cookie \in LogoutCookies :
                   /\ (admin_logout(t, cookie) /\ req'[t].status = 303)
                         => (/\ SessionDigest(cookie) \notin DOMAIN admin_sessions'
                             /\ \A s \in DOMAIN admin_sessions \ {SessionDigest(cookie)} :
                                   /\ s \in DOMAIN admin_sessions'
                                   /\ admin_sessions'[s] = admin_sessions[s])
                   /\ (admin_page(t, cookie) /\ SessionDigest(cookie) \notin DOMAIN admin_sessions)
                         => req'[t].note # "overview"
             /\ (/\ req[t].kind = "delete" /\ req[t].pc = "session"
                 /\ req[t].cookie \notin DOMAIN admin_sessions
                 /\ req'[t] # req[t])
                   => req'[t].pc # "cleanup"]_vars
    /\ [](DOMAIN admin_sessions \subseteq HandedOut)

\* The login of slot t1 was answered with its session, the logout of slot t2 with its
\* redirect in the same hour, and no session is left: the logout removed the row.
C39_Witness ==
    /\ req["t1"].kind = "login" /\ req["t1"].note = "session"
    /\ req["t2"].kind = "logout" /\ req["t2"].status = 303
    /\ now = 0
    /\ rng = 1
    /\ admin_sessions = << >>

====
